---- MODULE Spec2Model ----
(***************************************************************************)
(* Balance and transaction engine of jacksclub: transact() and             *)
(* getCurrentBalance() running as concurrent calls against one DynamoDB    *)
(* table.  Every await of the code is one atomic step of a call; the       *)
(* synchronous code between two awaits belongs to the step of the first.   *)
(* JavaScript strings are sequences of one-character strings.              *)
(***************************************************************************)
EXTENDS Integers, Sequences, FiniteSets, TLC

\* ------------------------------------------------------------------ bounds
\* number of transact calls issued in one behaviour
MaxCalls == 3
\* number of transact calls running at the same time
MaxInFlight == 2
\* last millisecond the wall clock reaches
MaxTime == 1
\* number of store requests that fail for a reason of the store
MaxFaults == 1
\* number of identical requests issued at once under one token
MaxIdentical == 3
\* number of requests with distinct tokens issued at once on one account
MaxConcurrent == 3
\* number of getCurrentBalance calls issued in one behaviour
MaxReads == 2

\* ------------------------------------------------------- program constants
BALANCE_TTL_DAYS == 30
SecondsPerDay == 86400
MillisPerSecond == 1000
SeedBalance == 1000
SeedVersion == 1
\* maxAttempts of createTable
maxAttempts == 30

Calls == 1..MaxCalls

Reads == 1..MaxReads

\* ------------------------------------------------------------ JS strings
\* White space and line terminators of ECMAScript, the characters that trim
\* removes and parseFloat skips: tab, line feed, form feed, carriage return
\* and space are written as themselves; a character that has no notation in
\* a TLA+ string is the one-character string named by its code point
\* (U+000B is the vertical tab, U+00A0 the no-break space, U+FEFF the byte
\* order mark, the others the Unicode space separators and the line and
\* paragraph separators)
WhiteSpace ==
    {"\t", "\n", "\f", "\r", " ",
     "U+000B", "U+00A0", "U+1680", "U+2000", "U+2001", "U+2002",
     "U+2003", "U+2004", "U+2005", "U+2006", "U+2007", "U+2008",
     "U+2009", "U+200A", "U+2028", "U+2029", "U+202F", "U+205F",
     "U+3000", "U+FEFF"}
DigitChars == {"0", "1", "2", "3", "4", "5", "6", "7", "8", "9"}

DigitValue(ch) ==
    CASE ch = "0" -> 0 [] ch = "1" -> 1 [] ch = "2" -> 2 [] ch = "3" -> 3
      [] ch = "4" -> 4 [] ch = "5" -> 5 [] ch = "6" -> 6 [] ch = "7" -> 7
      [] ch = "8" -> 8 [] ch = "9" -> 9

DigitChar(d) ==
    CASE d = 0 -> "0" [] d = 1 -> "1" [] d = 2 -> "2" [] d = 3 -> "3"
      [] d = 4 -> "4" [] d = 5 -> "5" [] d = 6 -> "6" [] d = 7 -> "7"
      [] d = 8 -> "8" [] d = 9 -> "9"

RECURSIVE TrimStart(_)
TrimStart(s) ==
    IF s # <<>> /\ Head(s) \in WhiteSpace THEN TrimStart(Tail(s)) ELSE s

RECURSIVE TrimEnd(_)
TrimEnd(s) ==
    IF s # <<>> /\ s[Len(s)] \in WhiteSpace
    THEN TrimEnd(SubSeq(s, 1, Len(s) - 1))
    ELSE s

\* String.prototype.trim
Trim(s) == TrimEnd(TrimStart(s))

RECURSIVE DigitsPrefix(_)
DigitsPrefix(s) ==
    IF s # <<>> /\ Head(s) \in DigitChars
    THEN <<Head(s)>> \o DigitsPrefix(Tail(s))
    ELSE <<>>

InfinityChars == <<"I", "n", "f", "i", "n", "i", "t", "y">>

StartsWith(s, prefix) ==
    Len(s) >= Len(prefix) /\ SubSeq(s, 1, Len(prefix)) = prefix

\* ------------------------------------------------------- natural numbers
\* a natural number of any size: its digits in base LimbBase, least
\* significant first, without a zero at the top
LimbBits == 15

Max(a, b) == IF a >= b THEN a ELSE b
Min(a, b) == IF a <= b THEN a ELSE b

RECURSIVE Pow2(_)
Pow2(n) == IF n = 0 THEN 1 ELSE 2 * Pow2(n - 1)

LimbBase == Pow2(LimbBits)

\* the largest and the smallest element of a set of integers that is not empty
SetMax(S) == CHOOSE x \in S : \A y \in S : y <= x
SetMin(S) == CHOOSE x \in S : \A y \in S : x <= y

Zeros(n) == [i \in 1..n |-> 0]

\* the zeros at the top are dropped
NatNorm(a) ==
    LET used == {i \in 1..Len(a) : a[i] # 0}
    IN  IF used = {} THEN <<>> ELSE SubSeq(a, 1, SetMax(used))

RECURSIVE NatOfInt(_)
NatOfInt(n) == IF n = 0 THEN <<>> ELSE <<n % LimbBase>> \o NatOfInt(n \div LimbBase)

\* the digits of a + b + carry for a and b of one length, and the carry out
RECURSIVE AddLimbs(_, _, _)
AddLimbs(a, b, carry) ==
    IF a = <<>> THEN [limbs |-> <<>>, carry |-> carry]
    ELSE IF Len(a) = 1
    THEN [limbs |-> <<(a[1] + b[1] + carry) % LimbBase>>,
          carry |-> (a[1] + b[1] + carry) \div LimbBase]
    ELSE LET h == Len(a) \div 2
             lo == AddLimbs(SubSeq(a, 1, h), SubSeq(b, 1, h), carry)
             hi == AddLimbs(SubSeq(a, h + 1, Len(a)), SubSeq(b, h + 1, Len(b)), lo.carry)
         IN  [limbs |-> lo.limbs \o hi.limbs, carry |-> hi.carry]

NatAdd(a, b) ==
    LET n == Max(Len(a), Len(b))
        r == AddLimbs(a \o Zeros(n - Len(a)), b \o Zeros(n - Len(b)), 0)
    IN  IF r.carry = 0 THEN r.limbs ELSE r.limbs \o <<r.carry>>

\* the digits of a - b - borrow for a and b of one length, and the borrow out
RECURSIVE SubLimbs(_, _, _)
SubLimbs(a, b, borrow) ==
    IF a = <<>> THEN [limbs |-> <<>>, borrow |-> borrow]
    ELSE IF Len(a) = 1
    THEN [limbs |-> <<(a[1] - b[1] - borrow) % LimbBase>>,
          borrow |-> IF a[1] - b[1] - borrow < 0 THEN 1 ELSE 0]
    ELSE LET h == Len(a) \div 2
             lo == SubLimbs(SubSeq(a, 1, h), SubSeq(b, 1, h), borrow)
             hi == SubLimbs(SubSeq(a, h + 1, Len(a)), SubSeq(b, h + 1, Len(b)), lo.borrow)
         IN  [limbs |-> lo.limbs \o hi.limbs, borrow |-> hi.borrow]

\* a - b for a >= b
NatSub(a, b) == NatNorm(SubLimbs(a, b \o Zeros(Len(a) - Len(b)), 0).limbs)

\* a < b
NatLess(a, b) ==
    LET diff == {i \in 1..Len(a) : a[i] # b[i]}
    IN  IF Len(a) # Len(b) THEN Len(a) < Len(b)
        ELSE IF diff = {} THEN FALSE
        ELSE a[SetMax(diff)] < b[SetMax(diff)]

\* the digits of a * k + carry, and the carry out, for k and carry below LimbBase
RECURSIVE MulLimbs(_, _, _)
MulLimbs(a, k, carry) ==
    IF a = <<>> THEN [limbs |-> <<>>, carry |-> carry]
    ELSE IF Len(a) = 1
    THEN [limbs |-> <<(a[1] * k + carry) % LimbBase>>,
          carry |-> (a[1] * k + carry) \div LimbBase]
    ELSE LET h == Len(a) \div 2
             lo == MulLimbs(SubSeq(a, 1, h), k, carry)
             hi == MulLimbs(SubSeq(a, h + 1, Len(a)), k, lo.carry)
         IN  [limbs |-> lo.limbs \o hi.limbs, carry |-> hi.carry]

\* a * k + carry for k and carry below LimbBase
NatMulSmall(a, k, carry) ==
    LET r == MulLimbs(a, k, carry)
    IN  IF r.carry = 0 THEN r.limbs ELSE r.limbs \o <<r.carry>>

Reverse(s) == [i \in 1..Len(s) |-> s[Len(s) + 1 - i]]

\* long division by k, 0 < k <= LimbBase, of digits given from the top
\* down: the digits of the quotient and the remainder, for a remainder r
\* brought in
RECURSIVE DivLimbs(_, _, _)
DivLimbs(a, k, r) ==
    IF a = <<>> THEN [q |-> <<>>, r |-> r]
    ELSE IF Len(a) = 1
    THEN [q |-> <<(r * LimbBase + a[1]) \div k>>, r |-> (r * LimbBase + a[1]) % k]
    ELSE LET h == Len(a) \div 2
             hi == DivLimbs(SubSeq(a, 1, h), k, r)
             lo == DivLimbs(SubSeq(a, h + 1, Len(a)), k, hi.r)
         IN  [q |-> hi.q \o lo.q, r |-> lo.r]

\* quotient and remainder of a by k, 0 < k <= LimbBase
NatDivSmall(a, k) ==
    LET d == DivLimbs(Reverse(a), k, 0)
    IN  [q |-> NatNorm(Reverse(d.q)), r |-> d.r]

RECURSIVE BitLenSmall(_)
BitLenSmall(n) == IF n = 0 THEN 0 ELSE 1 + BitLenSmall(n \div 2)

\* the number of binary digits of a
BitLen(a) ==
    IF a = <<>> THEN 0 ELSE LimbBits * (Len(a) - 1) + BitLenSmall(a[Len(a)])

\* a * 2^n
NatShiftLeft(a, n) ==
    IF a = <<>> THEN <<>>
    ELSE NatMulSmall(Zeros(n \div LimbBits) \o a, Pow2(n % LimbBits), 0)

\* floor(a / 2^n), and whether digits other than 0 were dropped
NatShiftRight(a, n) ==
    LET limbs == Min(n \div LimbBits, Len(a))
        d == NatDivSmall(SubSeq(a, limbs + 1, Len(a)), Pow2(n % LimbBits))
    IN  [q |-> d.q, sticky |-> d.r # 0 \/ \E i \in 1..limbs : a[i] # 0]

IsOdd(a) == a # <<>> /\ a[1] % 2 = 1

\* a * 10^k
RECURSIVE NatMulPow10(_, _)
NatMulPow10(a, k) ==
    IF a = <<>> \/ k = 0 THEN a
    ELSE IF k < 4 THEN NatMulPow10(NatMulSmall(a, 10, 0), k - 1)
    ELSE IF k = 4 THEN NatMulSmall(a, 10000, 0)
    ELSE NatMulPow10(NatMulPow10(a, k \div 2), k - k \div 2)

\* floor(a / 10^k), and whether the division left a remainder
RECURSIVE NatDivPow10(_, _)
NatDivPow10(a, k) ==
    IF a = <<>> \/ k = 0 THEN [q |-> a, sticky |-> FALSE]
    ELSE IF k <= 4
    THEN LET d == NatDivSmall(a, IF k = 4 THEN 10000 ELSE IF k = 3 THEN 1000
                                 ELSE IF k = 2 THEN 100 ELSE 10)
         IN  [q |-> d.q, sticky |-> d.r # 0]
    ELSE LET first == NatDivPow10(a, k \div 2)
             second == NatDivPow10(first.q, k - k \div 2)
         IN  [q |-> second.q, sticky |-> first.sticky \/ second.sticky]

\* the value of a run of at most 4 decimal digits
RECURSIVE DigitsValue(_)
DigitsValue(ds) ==
    IF ds = <<>> THEN 0
    ELSE 10 * DigitsValue(SubSeq(ds, 1, Len(ds) - 1)) + DigitValue(ds[Len(ds)])

\* the value of a run of decimal digits
RECURSIVE NatOfDigits(_)
NatOfDigits(ds) ==
    IF Len(ds) <= 4 THEN NatOfInt(DigitsValue(ds))
    ELSE LET h == Len(ds) \div 2
         IN  NatAdd(NatMulPow10(NatOfDigits(SubSeq(ds, 1, h)), Len(ds) - h),
                    NatOfDigits(SubSeq(ds, h + 1, Len(ds))))

\* --------------------------------------------------------------- Numbers
\* a Number (IEEE 754 binary64) other than NaN: an infinity, or the value
\* m * 2^e with m odd and below 2^53, or zero (m empty, e 0); neg is the sign
MantissaBits == 53
MinExponent == 0 - 1074
MaxBinaryExponent == 1024

PlusInfinity == [inf |-> TRUE, neg |-> FALSE, m |-> <<>>, e |-> 0]
MinusInfinity == [inf |-> TRUE, neg |-> TRUE, m |-> <<>>, e |-> 0]
Zero == [inf |-> FALSE, neg |-> FALSE, m |-> <<>>, e |-> 0]

\* the number of times n, not 0, can be halved
RECURSIVE TrailingZeros(_)
TrailingZeros(n) == IF n % 2 = 1 THEN 0 ELSE 1 + TrailingZeros(n \div 2)

\* the Number m * 2^e: the trailing zero digits of the mantissa move into
\* the exponent
Canonical(neg, m, e) ==
    IF m = <<>> THEN [inf |-> FALSE, neg |-> neg, m |-> <<>>, e |-> 0]
    ELSE LET low == SetMin({i \in 1..Len(m) : m[i] # 0})
             bits == TrailingZeros(m[low])
         IN  [inf |-> FALSE, neg |-> neg,
              m |-> NatDivSmall(SubSeq(m, low, Len(m)), Pow2(bits)).q,
              e |-> e + LimbBits * (low - 1) + bits]

\* the Number nearest to m * 2^e (to something above it and below the next
\* multiple of 2^e when sticky), ties to the even mantissa
RoundToNumber(neg, m, e, sticky) ==
    LET d == Max(BitLen(m) - MantissaBits, MinExponent - e)
        sh == NatShiftRight(m, d - 1)
        q == NatDivSmall(sh.q, 2).q
        up == IsOdd(sh.q) /\ (sh.sticky \/ sticky \/ IsOdd(q))
        r == IF up THEN NatAdd(q, <<1>>) ELSE q
    IN  IF d <= 0
        THEN IF BitLen(m) + e > MaxBinaryExponent
             THEN [inf |-> TRUE, neg |-> neg, m |-> <<>>, e |-> 0]
             ELSE Canonical(neg, m, e)
        ELSE IF BitLen(r) + e + d > MaxBinaryExponent
        THEN [inf |-> TRUE, neg |-> neg, m |-> <<>>, e |-> 0]
        ELSE Canonical(neg, r, e + d)

\* the Number of an integer of the model
FromInt(n) == Canonical(n < 0, NatOfInt(IF n < 0 THEN 0 - n ELSE n), 0)

Negate(x) == [x EXCEPT !.neg = ~x.neg]

IsFinite(x) == ~x.inf

IsZero(x) == ~x.inf /\ x.m = <<>>

\* x < 0
IsNegative(x) == x.neg /\ ~IsZero(x)

\* x > 0
IsPositive(x) == ~x.neg /\ ~IsZero(x)

\* the sum of two Numbers that are not infinities of opposite sign
JsAdd(x, y) ==
    IF x.inf THEN x
    ELSE IF y.inf THEN y
    ELSE LET e == Min(x.e, y.e)
             a == NatShiftLeft(x.m, x.e - e)
             b == NatShiftLeft(y.m, y.e - e)
         IN  IF x.neg = y.neg
             THEN IF x.m = <<>> /\ y.m = <<>> THEN x
                  ELSE RoundToNumber(x.neg, NatAdd(a, b), e, FALSE)
             ELSE IF a = b THEN Zero
             ELSE IF NatLess(a, b) THEN RoundToNumber(y.neg, NatSub(b, a), e, FALSE)
             ELSE RoundToNumber(x.neg, NatSub(a, b), e, FALSE)

\* x - y
JsSub(x, y) == JsAdd(x, Negate(y))

\* |x| < |y| for finite x and y: the one whose leading bit is lower, and
\* among Numbers with one leading bit the one with the smaller mantissa
MagnitudeLess(x, y) ==
    IF x.m = <<>> THEN y.m # <<>>
    ELSE IF y.m = <<>> THEN FALSE
    ELSE IF BitLen(x.m) + x.e # BitLen(y.m) + y.e
    THEN BitLen(x.m) + x.e < BitLen(y.m) + y.e
    ELSE LET e == Min(x.e, y.e)
         IN  NatLess(NatShiftLeft(x.m, x.e - e), NatShiftLeft(y.m, y.e - e))

\* x < y
JsLess(x, y) ==
    IF x = y THEN FALSE
    ELSE IF x.inf THEN x.neg
    ELSE IF y.inf THEN ~y.neg
    ELSE IF x.neg # y.neg THEN x.neg /\ ~(x.m = <<>> /\ y.m = <<>>)
    ELSE IF x.neg THEN MagnitudeLess(y, x)
    ELSE MagnitudeLess(x, y)

\* Number.MAX_SAFE_INTEGER, 2^53 - 1
MaxSafeInteger == Canonical(FALSE, NatSub(NatShiftLeft(<<1>>, MantissaBits), <<1>>), 0)

\* the decimal exponents beyond which every literal is infinite or zero
MaxDecimalExponent == 400

\* the Number nearest to n * 10^x
DecimalToNumber(neg, n, x) ==
    IF n = <<>> THEN [inf |-> FALSE, neg |-> neg, m |-> <<>>, e |-> 0]
    ELSE IF x >= 0 THEN RoundToNumber(neg, NatMulPow10(n, x), 0, FALSE)
    ELSE LET k == 0 - x
             p == MantissaBits + 3 + 4 * k
             d == NatDivPow10(NatShiftLeft(n, p), k)
         IN  RoundToNumber(neg, d.q, 0 - p, d.sticky)

\* the smallest magnitude other than 0 of a Number of the store, 1E-130
MinStoreNumber == DecimalToNumber(FALSE, <<1>>, 0 - 130)

\* the digits after an exponent mark, with the sign: <<>> when the text at
\* the mark is not an exponent part
ExponentPart(s) ==
    LET marked == s # <<>> /\ Head(s) \in {"e", "E"}
        t == IF marked THEN Tail(s) ELSE <<>>
        signed == t # <<>> /\ Head(t) \in {"-", "+"}
        ds == DigitsPrefix(IF signed THEN Tail(t) ELSE t)
    IN  [present |-> ds # <<>>, neg |-> signed /\ Head(t) = "-", digits |-> ds]

\* the value of the digits of an exponent, capped
RECURSIVE CappedValue(_, _)
CappedValue(ds, acc) ==
    IF ds = <<>> THEN acc
    ELSE CappedValue(Tail(ds), Min(10 * acc + DigitValue(Head(ds)), 100000))

RECURSIVE StripLeadingZeros(_)
StripLeadingZeros(ds) ==
    IF ds # <<>> /\ Head(ds) = "0" THEN StripLeadingZeros(Tail(ds)) ELSE ds

\* parseFloat: leading white space is skipped, then the longest prefix that
\* is a decimal literal (sign, Infinity or digits with an optional fraction
\* and an optional exponent) is read and anything after it is ignored; NaN
\* when there is no such prefix
ParseFloat(s) ==
    LET t == TrimStart(s)
        signed == t # <<>> /\ Head(t) \in {"-", "+"}
        negative == signed /\ Head(t) = "-"
        body == IF signed THEN Tail(t) ELSE t
        int == DigitsPrefix(body)
        afterInt == SubSeq(body, Len(int) + 1, Len(body))
        dotted == afterInt # <<>> /\ Head(afterInt) = "."
        frac == IF dotted THEN DigitsPrefix(Tail(afterInt)) ELSE <<>>
        afterFrac == IF dotted
                     THEN SubSeq(afterInt, Len(frac) + 2, Len(afterInt))
                     ELSE afterInt
        ex == ExponentPart(afterFrac)
        exv == IF ex.present
               THEN (IF ex.neg THEN 0 - CappedValue(ex.digits, 0) ELSE CappedValue(ex.digits, 0))
               ELSE 0
        digits == StripLeadingZeros(int \o frac)
        x == exv - Len(frac)
    IN  IF StartsWith(body, InfinityChars)
        THEN [nan |-> FALSE, val |-> IF negative THEN MinusInfinity ELSE PlusInfinity]
        ELSE IF int = <<>> /\ frac = <<>>
        THEN [nan |-> TRUE, val |-> Zero]
        ELSE IF digits = <<>>
        THEN [nan |-> FALSE, val |-> [inf |-> FALSE, neg |-> negative, m |-> <<>>, e |-> 0]]
        ELSE IF x + Len(digits) > MaxDecimalExponent
        THEN [nan |-> FALSE, val |-> IF negative THEN MinusInfinity ELSE PlusInfinity]
        ELSE IF x + Len(digits) < 0 - MaxDecimalExponent
        THEN [nan |-> FALSE, val |-> [inf |-> FALSE, neg |-> negative, m |-> <<>>, e |-> 0]]
        ELSE [nan |-> FALSE, val |-> DecimalToNumber(negative, NatOfDigits(digits), x)]

\* Date.prototype.toISOString for the instants of the model, the first
\* milliseconds of the epoch: 1970-01-01T00:00:00.00dZ
ToISOString(t) ==
    <<"1", "9", "7", "0", "-", "0", "1", "-", "0", "1", "T",
      "0", "0", ":", "0", "0", ":", "0", "0", ".",
      DigitChar((t \div 100) % 10), DigitChar((t \div 10) % 10), DigitChar(t % 10), "Z">>

\* Math.floor(Date.now() / 1000) + (BALANCE_TTL_DAYS * 24 * 60 * 60)
Ttl(t) == (t \div MillisPerSecond) + (BALANCE_TTL_DAYS * SecondsPerDay)

\* ------------------------------------------------------------- store keys
UserPrefix == <<"U", "S", "E", "R", "#">>
TxnPrefix == <<"T", "X", "N", "#">>
BalanceSK == <<"B", "A", "L", "A", "N", "C", "E">>
ResultSK == <<"R", "E", "S", "U", "L", "T">>

\* mutant: the account id is trimmed before it goes into the key
createUserBalanceKeyTrimmed(userId) ==
    [PK |-> UserPrefix \o Trim(userId), SK |-> BalanceSK]

createUserBalanceKey(userId) ==
    [PK |-> UserPrefix \o userId, SK |-> BalanceSK]

createTransactionKey(userId, timestamp, idempotentKey) ==
    [PK |-> UserPrefix \o userId,
     SK |-> TxnPrefix \o timestamp \o <<"#">> \o idempotentKey]

createIdempotencyKey(idempotentKey) ==
    [PK |-> TxnPrefix \o idempotentKey, SK |-> ResultSK]

\* PutCommand / Put of a TransactWrite: the item replaces whatever the key held
Put(tbl, key, item) ==
    [k \in DOMAIN tbl \cup {key} |-> IF k = key THEN item ELSE tbl[k]]

\* ------------------------------------------------------------------ inputs
\* the accounts of seedData; SeededUser is the first of them, ZeroUser the
\* one seeded with balance 0
SeededUser == <<"u", "s", "e", "r", "1">>
ZeroUser == <<"u", "s", "e", "r", "3">>
seedUsers ==
    << [userId |-> SeededUser, balance |-> SeedBalance],
       [userId |-> <<"u", "s", "e", "r", "2">>, balance |-> 500],
       [userId |-> ZeroUser, balance |-> 0],
       [userId |-> <<"u", "s", "e", "r", "4">>, balance |-> 2500] >>
UserInputs == {SeededUser, <<"b">>}
TokenOrder == << <<"s">>, <<"t">> >>
TokenInputs == {TokenOrder[i] : i \in 1..Len(TokenOrder)}
AmountInputs == {<<"0", ".", "1">>, <<"1", "0", "0", "0">>}
TypeInputs == {"credit", "debit"}

ValidRequests ==
    [idempotentKey : TokenInputs, userId : UserInputs,
     amount : AmountInputs, type : TypeInputs]

\* one malformed request per validated field
InvalidRequests ==
    {[idempotentKey |-> <<" ">>, userId |-> SeededUser, amount |-> <<"5", "0", "0">>, type |-> "credit"],
     [idempotentKey |-> <<"s">>, userId |-> <<>>, amount |-> <<"5", "0", "0">>, type |-> "credit"],
     [idempotentKey |-> <<"s">>, userId |-> SeededUser, amount |-> <<"0">>, type |-> "debit"],
     [idempotentKey |-> <<"s">>, userId |-> SeededUser, amount |-> <<"5", "0", "0">>, type |-> "transfer"]}

Requests == ValidRequests \cup InvalidRequests

\* amount strings of every shape: blank, zero, signed, with white space or
\* other text around the digits, with a fraction or an exponent, out of the
\* range of a Number, not finite
WideAmounts ==
    {<<>>, <<" ">>, <<"\t">>, <<"0">>, <<"0", ".", "0">>, <<"-", "5">>, <<"x">>, <<".">>,
     <<"5">>, <<" ", "5">>, <<"\t", "5">>, <<"5", "x">>, <<"+", "5">>,
     <<"0", ".", "0", "1">>, <<".", "5">>, <<"1", "e", "3">>,
     <<"1", "e", "-", "4", "0", "0">>, <<"1", "e", "4", "0", "0">>,
     InfinityChars, <<"-">> \o InfinityChars}

\* the amount strings of the requests and of the scenarios
AmountStrings ==
    AmountInputs \cup WideAmounts \cup {r.amount : r \in InvalidRequests}
    \cup {<<"1", "0", "0">>, <<"5", "0">>, <<"2", "5">>, <<"1", "0">>}

\* parseFloat of each of them, evaluated once
ParsedAmounts == [amountStr \in AmountStrings |-> ParseFloat(amountStr)]

\* const amount = parseFloat(amountStr)
Amount(amountStr) ==
    IF amountStr \in AmountStrings THEN ParsedAmounts[amountStr] ELSE ParseFloat(amountStr)

\* ------------------------------------------------------------------- state
VARIABLES
    table,   \* the DynamoDB table: key [PK, SK] -> item
    calls,   \* the transact calls: position, request, locals, outcome
    now,     \* the wall clock, in milliseconds
    faults,  \* the store requests that have failed so far
    reads,   \* the getCurrentBalance calls: position, argument, outcome
    responses, \* the HTTP requests answered: body received, status and code sent
    setup    \* the table as the store has it, and the run of setup.ts

vars == <<table, calls, now, faults, reads, responses, setup>>

NoRequest == [idempotentKey |-> <<>>, userId |-> <<>>, amount |-> <<>>, type |-> ""]

NoResult ==
    [success |-> FALSE, idempotentKey |-> <<>>, userId |-> <<>>, amount |-> <<>>,
     type |-> "", newBalance |-> Zero, message |-> ""]

IdleCall ==
    [pc |-> "idle", req |-> NoRequest, currentBalance |-> Zero, currentVersion |-> 0,
     createdAt |-> <<>>, newBalance |-> Zero, time |-> 0, error |-> "", result |-> NoResult,
     retry |-> FALSE]

\* a getCurrentBalance call that has not been made
IdleRead ==
    [pc |-> "idle", arg |-> [type |-> "undefined", text |-> <<>>], balance |-> Zero, error |-> ""]

\* a JavaScript value of a JSON body that is not a string
JsUndefined == [type |-> "undefined", text |-> <<>>]
NumberValue(text) == [type |-> "number", text |-> text]

\* no body received
NoBody ==
    [json |-> "", idempotentKey |-> JsUndefined, userId |-> JsUndefined,
     amount |-> JsUndefined, type |-> JsUndefined]

\* an HTTP request that has not been answered
NoResponse == [body |-> NoBody, status |-> 0, success |-> FALSE, code |-> ""]

NoResponses ==
    [transact |-> [c \in Calls |-> NoResponse], balance |-> [b \in Reads |-> NoResponse]]

\* seedData: the item put for the i-th account at the instant t
SeedItemOf(i, t) ==
    [userId |-> seedUsers[i].userId, balance |-> FromInt(seedUsers[i].balance),
     version |-> SeedVersion, createdAt |-> ToISOString(t), updatedAt |-> ToISOString(t)]

\* the item of the first seeded account, written at the first instant
SeedItem == SeedItemOf(1, 0)

\* the table after the first n PutCommands of seedData, all at the instant t
RECURSIVE SeedPuts(_, _, _)
SeedPuts(tbl, n, t) ==
    IF n = 0 THEN tbl
    ELSE Put(SeedPuts(tbl, n - 1, t), createUserBalanceKey(seedUsers[n].userId),
             SeedItemOf(n, t))

\* the table `setup.ts create` leaves: the four seeded accounts
SeededTable == SeedPuts(<<>>, Len(seedUsers), 0)

\* no run of setup.ts is under way; status is the TableStatus of the store
\* ("NONE" when the table does not exist)
SetupIdle(status) ==
    [pc |-> "idle", command |-> "", status |-> status, seeded |-> 0, attempts |-> 0,
     stamp |-> 0]

\* the store serves requests on the table
TableActive == setup.status = "ACTIVE"

\* the instants a reading of the clock can give
ClockReadings == now..(IF now < MaxTime THEN MaxTime ELSE now)

\* the state after `setup.ts create` on a store without the table
Init ==
    /\ table = SeededTable
    /\ calls = [c \in Calls |-> IdleCall]
    /\ now = 0
    /\ faults = 0
    /\ reads = [b \in Reads |-> IdleRead]
    /\ responses = NoResponses
    /\ setup = SetupIdle("ACTIVE")

\* ------------------------------------------------------- transact: checks
IsBlank(s) == s = <<>> \/ Trim(s) = <<>>

\* the input validation of transact, in the order of the code; "OK" or the
\* code of the BalanceError thrown
Validate(r) ==
    IF IsBlank(r.idempotentKey) THEN "INVALID_IDEMPOTENT_KEY"
    ELSE IF IsBlank(r.userId) THEN "INVALID_USER_ID"
    ELSE IF IsBlank(r.amount) THEN "INVALID_AMOUNT"
    ELSE IF Amount(r.amount).nan \/ ~IsPositive(Amount(r.amount).val)
    THEN "INVALID_AMOUNT"
    ELSE IF r.type \notin {"credit", "debit"} THEN "INVALID_TRANSACTION_TYPE"
    ELSE "OK"

\* mutant: only the failures of the store are recorded
ShouldRecordFailureOfStore(code) == code = "AWS_ERROR"

\* the guard of the catch block: is a failed idempotency item written for this error?
ShouldRecordFailure(code) ==
    \/ code = "AWS_ERROR"
    \/ /\ code # "INVALID_IDEMPOTENT_KEY"
       /\ code # "INVALID_USER_ID"
       /\ code # "INVALID_AMOUNT_FORMAT"
       /\ code # "INVALID_TRANSACTION_TYPE"

\* what the caller receives for the error caught: a BalanceError is rethrown,
\* anything else is wrapped
ThrownCode(code) == IF code = "AWS_ERROR" THEN "TRANSACTION_ERROR" ELSE code

\* mutant: a debit is added like a credit
ComputeNewBalanceAddsDebit(currentBalance, amount, type) == JsAdd(currentBalance, amount)

\* step 3: the new balance
ComputeNewBalance(currentBalance, amount, type) ==
    IF type = "credit" THEN JsAdd(currentBalance, amount) ELSE JsSub(currentBalance, amount)

\* mutant: the funds check looks at the balance read, not at the new balance
InsufficientFundsOnCurrent(currentBalance, amount, type) ==
    type # "credit" /\ IsNegative(currentBalance)

InsufficientFunds(currentBalance, amount, type) ==
    type # "credit" /\ IsNegative(ComputeNewBalance(currentBalance, amount, type))

\* mutant: the version is compared with the balance items of all accounts
ConditionOnEveryAccount(tbl, key, currentVersion) ==
    \/ key \notin DOMAIN tbl
    \/ \A k \in DOMAIN tbl : k.SK = BalanceSK => tbl[k].version = currentVersion

\* mutant: the condition lacks attribute_not_exists(PK)
ConditionRequiresItem(tbl, key, currentVersion) ==
    key \in DOMAIN tbl /\ tbl[key].version = currentVersion

\* mutant: the balance Put carries no ConditionExpression
ConditionAlwaysHolds(tbl, key, currentVersion) == TRUE

\* ConditionExpression of the balance Put: attribute_not_exists(PK) OR version = :currentVersion
ConditionHolds(tbl, key, currentVersion) ==
    key \notin DOMAIN tbl \/ tbl[key].version = currentVersion

\* ------------------------------------------------------ transact: items
\* mutant: the balance item is written with the version that was read
BalanceItemKeepsVersion(cl) ==
    [userId |-> cl.req.userId,
     balance |-> cl.newBalance,
     version |-> cl.currentVersion,
     createdAt |-> IF cl.createdAt # <<>> THEN cl.createdAt ELSE ToISOString(cl.time),
     updatedAt |-> ToISOString(cl.time)]

BalanceItemOf(cl) ==
    [userId |-> cl.req.userId,
     balance |-> cl.newBalance,
     version |-> cl.currentVersion + 1,
     createdAt |-> IF cl.createdAt # <<>> THEN cl.createdAt ELSE ToISOString(cl.time),
     updatedAt |-> ToISOString(cl.time)]

TransactionItemOf(cl) ==
    [userId |-> cl.req.userId,
     idempotentKey |-> cl.req.idempotentKey,
     amount |-> Amount(cl.req.amount).val,
     type |-> cl.req.type,
     status |-> "completed",
     timestamp |-> ToISOString(cl.time),
     balanceAfter |-> cl.newBalance]

IdempotencyItemOf(cl) ==
    [idempotentKey |-> cl.req.idempotentKey,
     userId |-> cl.req.userId,
     amount |-> cl.req.amount,
     type |-> cl.req.type,
     newBalance |-> cl.newBalance,
     status |-> "completed",
     timestamp |-> ToISOString(cl.time),
     ttl |-> Ttl(cl.time)]

\* mutant: the failed item records the balance that was read
FailedItemKeepsBalance(cl) ==
    [idempotentKey |-> cl.req.idempotentKey,
     userId |-> cl.req.userId,
     amount |-> cl.req.amount,
     type |-> cl.req.type,
     newBalance |-> cl.currentBalance,
     status |-> "failed",
     timestamp |-> ToISOString(cl.time),
     ttl |-> Ttl(cl.time)]

\* the item built in the catch block, stamped with the clock read there
FailedIdempotencyItemOf(cl) ==
    [idempotentKey |-> cl.req.idempotentKey,
     userId |-> cl.req.userId,
     amount |-> cl.req.amount,
     type |-> cl.req.type,
     newBalance |-> Zero,
     status |-> "failed",
     timestamp |-> ToISOString(cl.time),
     ttl |-> Ttl(cl.time)]

\* the three Puts of the TransactWriteCommand, applied together
CommitWrites(tbl, cl) ==
    Put(Put(Put(tbl,
                createUserBalanceKey(cl.req.userId), BalanceItemOf(cl)),
            createTransactionKey(cl.req.userId, ToISOString(cl.time), cl.req.idempotentKey),
            TransactionItemOf(cl)),
        createIdempotencyKey(cl.req.idempotentKey), IdempotencyItemOf(cl))

\* mutant: the replay echoes the balance as 0 instead of the stored one
ReplayResultNoBalance(idempotentKey, item) ==
    [success |-> item.status = "completed",
     idempotentKey |-> idempotentKey,
     userId |-> item.userId,
     amount |-> item.amount,
     type |-> item.type,
     newBalance |-> Zero,
     message |-> IF item.status = "completed"
                 THEN "Transaction already processed (idempotent)"
                 ELSE "Transaction previously failed"]

\* mutant: the replay reports every stored outcome as a success
ReplayResultAlwaysSuccess(idempotentKey, item) ==
    [success |-> TRUE,
     idempotentKey |-> idempotentKey,
     userId |-> item.userId,
     amount |-> item.amount,
     type |-> item.type,
     newBalance |-> item.newBalance,
     message |-> IF item.status = "completed"
                 THEN "Transaction already processed (idempotent)"
                 ELSE "Transaction previously failed"]

\* the result returned for a stored idempotency item
ReplayResult(idempotentKey, item) ==
    [success |-> item.status = "completed",
     idempotentKey |-> idempotentKey,
     userId |-> item.userId,
     amount |-> item.amount,
     type |-> item.type,
     newBalance |-> item.newBalance,
     message |-> IF item.status = "completed"
                 THEN "Transaction already processed (idempotent)"
                 ELSE "Transaction previously failed"]

\* the result returned after the commit
SuccessResult(cl) ==
    [success |-> TRUE,
     idempotentKey |-> cl.req.idempotentKey,
     userId |-> cl.req.userId,
     amount |-> cl.req.amount,
     type |-> cl.req.type,
     newBalance |-> cl.newBalance,
     message |-> "Transaction completed successfully"]

\* the call settles: its locals go out of scope, the request and the outcome
\* stay with the caller; a call that committed keeps the version it had read
Settled(cl, code, result) ==
    [IdleCall EXCEPT !.pc = "done", !.req = cl.req, !.error = code, !.result = result,
                     !.retry = cl.retry,
                     !.currentVersion = IF result.message = "Transaction completed successfully"
                                        THEN cl.currentVersion ELSE 0]

\* mutant: a lost race sends the call back to the balance read
CaughtRetriesRace(cl, code, t) ==
    IF code = "RACE_CONDITION" THEN [cl EXCEPT !.pc = "getBalance"]
    ELSE IF ShouldRecordFailure(code)
    THEN [cl EXCEPT !.pc = "putFailed", !.error = code, !.time = t]
    ELSE Settled(cl, ThrownCode(code), NoResult)

\* entering the catch block with the error `code` when the clock reads t:
\* the failed idempotency item is built and stamped before its put is awaited
Caught(cl, code, t) ==
    IF ShouldRecordFailure(code)
    THEN [cl EXCEPT !.pc = "putFailed", !.error = code, !.time = t]
    ELSE Settled(cl, ThrownCode(code), NoResult)

\* ---------------------------------------------------- transact: the steps
\* the calls that are between their invocation and their settlement
InFlight == {c \in Calls : calls[c].pc \notin {"idle", "done"}}

\* the tokens callers have used so far
UsedTokens == {calls[c].req.idempotentKey : c \in {d \in Calls : calls[d].pc # "idle"}}

\* callers take fresh tokens in the order of TokenOrder (tokens are opaque to
\* the program, so the choice of a fresh one does not matter)
MayUseToken(k) ==
    \/ k \notin TokenInputs
    \/ k \in UsedTokens
    \/ \E i \in 1..Len(TokenOrder) :
          /\ TokenOrder[i] = k
          /\ \A j \in 1..(i - 1) : TokenOrder[j] \in UsedTokens

\* the caller reissues a request that it saw fail with RACE_CONDITION
IsRetry(r) ==
    \E d \in Calls :
        calls[d].pc = "done" /\ calls[d].error = "RACE_CONDITION" /\ calls[d].req = r

\* a caller invokes transact(r); the validation runs before the first await
Start(c, r) ==
    /\ calls[c].pc = "idle"
    /\ IF c = 1 THEN TRUE ELSE calls[c - 1].pc # "idle"
    /\ Cardinality(InFlight) < MaxInFlight
    /\ MayUseToken(r.idempotentKey)
    /\ \E code \in {Validate(r)} :
          calls' = [calls EXCEPT ![c] =
             IF code = "OK"
             THEN [@ EXCEPT !.pc = "getIdempotency", !.req = r, !.retry = IsRetry(r)]
             ELSE Settled([@ EXCEPT !.req = r], code, NoResult)]
    /\ UNCHANGED <<table, now, faults, reads, responses, setup>>

\* mutant: a stored item of another account does not count as a replay
GetIdempotencyMatchesAccount(c) ==
    LET cl == calls[c]
        key == createIdempotencyKey(cl.req.idempotentKey)
    IN  /\ cl.pc = "getIdempotency"
        /\ TableActive
        /\ calls' = [calls EXCEPT ![c] =
              IF key \in DOMAIN table /\ table[key].userId = cl.req.userId
              THEN Settled(cl, "", ReplayResult(cl.req.idempotentKey, table[key]))
              ELSE [cl EXCEPT !.pc = "getBalance"]]
        /\ UNCHANGED <<table, now, faults, reads, responses, setup>>

\* step 1: the idempotency lookup returns
GetIdempotency(c) ==
    LET cl == calls[c]
        key == createIdempotencyKey(cl.req.idempotentKey)
    IN  /\ cl.pc = "getIdempotency"
        /\ TableActive
        /\ calls' = [calls EXCEPT ![c] =
              IF key \in DOMAIN table
              THEN Settled(cl, "", ReplayResult(cl.req.idempotentKey, table[key]))
              ELSE [cl EXCEPT !.pc = "getBalance"]]
        /\ UNCHANGED <<table, now, faults, reads, responses, setup>>

\* mutant: the balance read puts an empty balance item for an account it
\* does not find
GetBalanceCreatesRecord(c) ==
    LET cl == calls[c]
        key == createUserBalanceKey(cl.req.userId)
        found == key \in DOMAIN table
        currentBalance == IF found THEN table[key].balance ELSE Zero
        currentVersion == IF found THEN table[key].version ELSE 0
        amount == Amount(cl.req.amount).val
        read == [cl EXCEPT !.currentBalance = currentBalance,
                           !.currentVersion = currentVersion,
                           !.createdAt = IF found THEN table[key].createdAt ELSE <<>>]
    IN  /\ cl.pc = "getBalance"
        /\ TableActive
        /\ table' = IF found THEN table
                     ELSE Put(table, key, [SeedItem EXCEPT !.userId = cl.req.userId,
                                                           !.balance = Zero, !.version = 0])
        /\ IF InsufficientFunds(currentBalance, amount, cl.req.type)
           THEN \E t \in ClockReadings :
                /\ now' = t
                /\ calls' = [calls EXCEPT ![c] = Caught(read, "INSUFFICIENT_FUNDS", t)]
           ELSE \E t \in ClockReadings :
                /\ now' = t
                /\ calls' = [calls EXCEPT ![c] =
                      [read EXCEPT !.pc = "transactWrite",
                                   !.newBalance = ComputeNewBalance(currentBalance, amount, cl.req.type),
                                   !.time = t]]
        /\ UNCHANGED <<faults, reads, responses, setup>>

\* steps 2 to 4: the balance read returns, the new balance is computed and
\* the items are stamped with the clock
GetBalance(c) ==
    LET cl == calls[c]
        key == createUserBalanceKey(cl.req.userId)
        found == key \in DOMAIN table
        currentBalance == IF found THEN table[key].balance ELSE Zero
        currentVersion == IF found THEN table[key].version ELSE 0
        amount == Amount(cl.req.amount).val
        read == [cl EXCEPT !.currentBalance = currentBalance,
                           !.currentVersion = currentVersion,
                           !.createdAt = IF found THEN table[key].createdAt ELSE <<>>]
    IN  /\ cl.pc = "getBalance"
        /\ TableActive
        /\ IF InsufficientFunds(currentBalance, amount, cl.req.type)
           THEN \E t \in ClockReadings :
                /\ now' = t
                /\ calls' = [calls EXCEPT ![c] = Caught(read, "INSUFFICIENT_FUNDS", t)]
           ELSE \E t \in ClockReadings :
                /\ now' = t
                /\ calls' = [calls EXCEPT ![c] =
                      [read EXCEPT !.pc = "transactWrite",
                                   !.newBalance = ComputeNewBalance(currentBalance, amount, cl.req.type),
                                   !.time = t]]
        /\ UNCHANGED <<table, faults, reads, responses, setup>>

\* the Number x can be sent to the store: the document client throws for a
\* Number that is not finite or lies beyond the safe integers, the store
\* refuses a Number other than 0 whose magnitude is below its range
CanStore(x) ==
    /\ IsFinite(x)
    /\ ~JsLess(MaxSafeInteger, x)
    /\ ~JsLess(x, Negate(MaxSafeInteger))
    /\ IsZero(x) \/ ~JsLess([x EXCEPT !.neg = FALSE], MinStoreNumber)

\* the classes of the error by which a store reports that the
\* ConditionExpression of a Put in a TransactWriteCommand did not hold
ConditionFailures == {"ConditionalCheckFailedException", "TransactionCanceledException"}

\* the inner catch of step 5: the error thrown on for an error of the store
TransactWriteError(class) ==
    IF class = "ConditionalCheckFailedException" THEN "RACE_CONDITION" ELSE "AWS_ERROR"

\* step 5: the TransactWriteCommand is answered. Items with a Number that
\* cannot be stored make the send fail with an Error, the table as it was.
\* When the ConditionExpression does not hold the store cancels the three
\* Puts together and reports it with an error of one of ConditionFailures.
TransactWrite(c) ==
    LET cl == calls[c]
    IN  /\ cl.pc = "transactWrite"
        /\ TableActive
        /\ IF ~CanStore(cl.newBalance) \/ ~CanStore(Amount(cl.req.amount).val)
           THEN /\ table' = table
                /\ \E t \in ClockReadings :
                      /\ now' = t
                      /\ calls' = [calls EXCEPT ![c] = Caught(cl, "AWS_ERROR", t)]
           ELSE IF ConditionHolds(table, createUserBalanceKey(cl.req.userId), cl.currentVersion)
           THEN /\ table' = CommitWrites(table, cl)
                /\ now' = now
                /\ calls' = [calls EXCEPT ![c] = Settled(cl, "", SuccessResult(cl))]
           ELSE /\ table' = table
                /\ \E class \in ConditionFailures, t \in ClockReadings :
                      /\ now' = t
                      /\ calls' = [calls EXCEPT ![c] =
                            Caught(cl, TransactWriteError(class), t)]
        /\ UNCHANGED <<faults, reads, responses, setup>>

\* catch block: the put of the failed idempotency item is answered, then the
\* error is thrown
PutFailed(c) ==
    LET cl == calls[c]
    IN  /\ cl.pc = "putFailed"
        /\ TableActive
        /\ table' = Put(table, createIdempotencyKey(cl.req.idempotentKey),
                        FailedIdempotencyItemOf(cl))
        /\ calls' = [calls EXCEPT ![c] = Settled(cl, ThrownCode(cl.error), NoResult)]
        /\ UNCHANGED <<now, faults, reads, responses, setup>>

\* a store request of the try block fails for a reason of the store (the
\* table is not there, or a fault); the request has no effect on the table
StoreFails(c) ==
    LET cl == calls[c]
    IN  /\ cl.pc \in {"getIdempotency", "getBalance", "transactWrite"}
        /\ ~TableActive \/ faults < MaxFaults
        /\ faults' = IF TableActive THEN faults + 1 ELSE faults
        /\ \E t \in ClockReadings :
              /\ now' = t
              /\ calls' = [calls EXCEPT ![c] = Caught(cl, "AWS_ERROR", t)]
        /\ UNCHANGED <<table, reads, responses, setup>>

\* the put of the failed idempotency item fails: logged and swallowed
PutFailedFails(c) ==
    LET cl == calls[c]
    IN  /\ cl.pc = "putFailed"
        /\ ~TableActive \/ faults < MaxFaults
        /\ faults' = IF TableActive THEN faults + 1 ELSE faults
        /\ calls' = [calls EXCEPT ![c] = Settled(cl, ThrownCode(cl.error), NoResult)]
        /\ UNCHANGED <<table, now, reads, responses, setup>>

Next ==
    \/ \E c \in Calls, r \in Requests : Start(c, r)
    \/ \E c \in Calls : GetIdempotency(c)
    \/ \E c \in Calls : GetBalance(c)
    \/ \E c \in Calls : TransactWrite(c)
    \/ \E c \in Calls : PutFailed(c)
    \/ \E c \in Calls : StoreFails(c)
    \/ \E c \in Calls : PutFailedFails(c)

Spec == Init /\ [][Next]_vars

\* -------------------------------------------- specification: any request
\* requests of every shape the validation distinguishes: tokens and account
\* ids that are empty, blank (of space, tab or line feed) or not blank,
\* amounts that parseFloat reads as nothing, as zero, as negative, as positive
\* (with a fraction, an exponent, white space before or text after them),
\* as too small or too large for a Number and as infinite, and directions
\* that differ from credit and debit also only by case
WideTokens == {<<>>, <<" ">>, <<"\t">>, <<"s">>}
WideUsers == {<<>>, <<" ">>, <<"\n">>, SeededUser}
WideTypes == {"credit", "debit", "Credit", "DEBIT", "transfer", ""}

WideRequests ==
    [idempotentKey : WideTokens, userId : WideUsers,
     amount : WideAmounts, type : WideTypes]

\* a well-formed request is served, then a request of any shape is made while
\* or after it runs; the store answers every request
NextValidation ==
    \/ \E r \in ValidRequests : Start(1, r)
    \/ \E r \in WideRequests : Start(2, r)
    \/ \E c \in {1, 2} : GetIdempotency(c)
    \/ \E c \in {1, 2} : GetBalance(c)
    \/ \E c \in {1, 2} : TransactWrite(c)
    \/ \E c \in {1, 2} : PutFailed(c)

SpecValidation == Init /\ [][NextValidation]_vars

\* ------------------------------------- specification: five racing debits
\* transact(r) is invoked: the validation runs before the first await
Invoke(c, r) ==
    /\ calls[c].pc = "idle"
    /\ \E code \in {Validate(r)} :
          calls' = [calls EXCEPT ![c] =
             IF code = "OK"
             THEN [@ EXCEPT !.pc = "getIdempotency", !.req = r]
             ELSE Settled([@ EXCEPT !.req = r], code, NoResult)]
    /\ UNCHANGED <<table, now, faults, reads, responses, setup>>

\* an account the seed does not know
UnseenUser == <<"b">>

\* the number of debits the test issues at once
RaceCount == 5

\* call 1 sets the account up, calls 2 .. RaceCount + 1 are the debits
RaceCalls == 1..(RaceCount + 1)

RaceDebits == RaceCalls \ {1}

\* the account is credited with 100, then debited 50 under distinct tokens
RaceRequest(c) ==
    IF c = 1
    THEN [idempotentKey |-> <<"0">>, userId |-> UnseenUser,
          amount |-> <<"1", "0", "0">>, type |-> "credit"]
    ELSE [idempotentKey |-> <<DigitChar(c - 1)>>, userId |-> UnseenUser,
          amount |-> <<"5", "0">>, type |-> "debit"]

InitRace ==
    /\ table = SeededTable
    /\ calls = [c \in RaceCalls |-> IdleCall]
    /\ now = 0
    /\ faults = 0
    /\ reads = [b \in Reads |-> IdleRead]
    /\ responses = NoResponses
    /\ setup = SetupIdle("ACTIVE")

\* the debits have all been invoked: transactions.map(tx => transact(tx))
\* runs every call up to its first await before any answer is delivered
RaceStarted == \A c \in RaceDebits : calls[c].pc # "idle"

\* the setup credit is awaited, then the debits are invoked in order and run
\* concurrently
NextRace ==
    \/ Invoke(1, RaceRequest(1))
    \/ \E c \in RaceDebits :
          /\ calls[1].pc = "done"
          /\ calls[c - 1].pc # "idle"
          /\ Invoke(c, RaceRequest(c))
    \/ \E c \in RaceCalls : (c = 1 \/ RaceStarted) /\ GetIdempotency(c)
    \/ \E c \in RaceCalls : (c = 1 \/ RaceStarted) /\ GetBalance(c)
    \/ \E c \in RaceCalls : (c = 1 \/ RaceStarted) /\ TransactWrite(c)
    \/ \E c \in RaceCalls : (c = 1 \/ RaceStarted) /\ PutFailed(c)

SpecRace == InitRace /\ [][NextRace]_vars

\* -------------------------- specification: identical requests, one token
\* call 1 sets the account up, the others are the identical requests
IdenticalCalls == 1..(MaxIdentical + 1)

IdenticalRepeats == IdenticalCalls \ {1}

\* the account is credited with 100, then credited 25 under one token
IdenticalRequest(c) ==
    IF c = 1
    THEN [idempotentKey |-> <<"0">>, userId |-> UnseenUser,
          amount |-> <<"1", "0", "0">>, type |-> "credit"]
    ELSE [idempotentKey |-> <<"1">>, userId |-> UnseenUser,
          amount |-> <<"2", "5">>, type |-> "credit"]

InitIdentical ==
    /\ table = SeededTable
    /\ calls = [c \in IdenticalCalls |-> IdleCall]
    /\ now = 0
    /\ faults = 0
    /\ reads = [b \in Reads |-> IdleRead]
    /\ responses = NoResponses
    /\ setup = SetupIdle("ACTIVE")

\* Array.from({ length }, () => transact(...)) runs every call up to its
\* first await before any answer is delivered
IdenticalStarted == \A c \in IdenticalRepeats : calls[c].pc # "idle"

NextIdentical ==
    \/ Invoke(1, IdenticalRequest(1))
    \/ \E c \in IdenticalRepeats :
          /\ calls[1].pc = "done"
          /\ calls[c - 1].pc # "idle"
          /\ Invoke(c, IdenticalRequest(c))
    \/ \E c \in IdenticalCalls : (c = 1 \/ IdenticalStarted) /\ GetIdempotency(c)
    \/ \E c \in IdenticalCalls : (c = 1 \/ IdenticalStarted) /\ GetBalance(c)
    \/ \E c \in IdenticalCalls : (c = 1 \/ IdenticalStarted) /\ TransactWrite(c)
    \/ \E c \in IdenticalCalls : (c = 1 \/ IdenticalStarted) /\ PutFailed(c)

SpecIdentical == InitIdentical /\ [][NextIdentical]_vars

\* ------------------- specification: distinct tokens, one account, at once
ConcurrentCalls == 1..MaxConcurrent

\* credits and debits of 10 in turn on the seeded account, which holds enough
\* for all of them in any order
ConcurrentRequest(c) ==
    [idempotentKey |-> <<DigitChar(c)>>, userId |-> SeededUser,
     amount |-> <<"1", "0">>, type |-> IF c % 2 = 1 THEN "credit" ELSE "debit"]

InitConcurrent ==
    /\ table = SeededTable
    /\ calls = [c \in ConcurrentCalls |-> IdleCall]
    /\ now = 0
    /\ faults = 0
    /\ reads = [b \in Reads |-> IdleRead]
    /\ responses = NoResponses
    /\ setup = SetupIdle("ACTIVE")

\* concurrentOps.map(op => transact(op)) runs every call up to its first
\* await before any answer is delivered
ConcurrentStarted == \A c \in ConcurrentCalls : calls[c].pc # "idle"

NextConcurrent ==
    \/ \E c \in ConcurrentCalls :
          /\ IF c = 1 THEN TRUE ELSE calls[c - 1].pc # "idle"
          /\ Invoke(c, ConcurrentRequest(c))
    \/ \E c \in ConcurrentCalls : ConcurrentStarted /\ GetIdempotency(c)
    \/ \E c \in ConcurrentCalls : ConcurrentStarted /\ GetBalance(c)
    \/ \E c \in ConcurrentCalls : ConcurrentStarted /\ TransactWrite(c)
    \/ \E c \in ConcurrentCalls : ConcurrentStarted /\ PutFailed(c)

SpecConcurrent == InitConcurrent /\ [][NextConcurrent]_vars

\* ------------- specification: distinct tokens, one version read by all
\* every call has read the balance: none is idle or before its balance read
AllHaveRead ==
    \A c \in ConcurrentCalls : calls[c].pc \notin {"idle", "getIdempotency", "getBalance"}

\* the calls of ConcurrentRequest all read the account before the store
\* decides the first commit, so that all of them hold the same version
NextSameVersion ==
    \/ \E c \in ConcurrentCalls :
          /\ IF c = 1 THEN TRUE ELSE calls[c - 1].pc # "idle"
          /\ Invoke(c, ConcurrentRequest(c))
    \/ \E c \in ConcurrentCalls : GetIdempotency(c)
    \/ \E c \in ConcurrentCalls : GetBalance(c)
    \/ \E c \in ConcurrentCalls : AllHaveRead /\ TransactWrite(c)
    \/ \E c \in ConcurrentCalls : PutFailed(c)

\* the store answers every request and the event loop runs every
\* continuation that is ready
SpecSameVersion ==
    InitConcurrent /\ [][NextSameVersion]_vars /\ WF_vars(NextSameVersion)

\* ------------------------------------------------------ getCurrentBalance
\* a JavaScript value passed as userId: a string with its text, or a value
\* of another type
StringArg(text) == [type |-> "string", text |-> text]

\* a user whose balance item the test puts with a negative balance
NegativeUser == <<"n">>
NegativeBalance == 0 - 100

BalanceArgs ==
    {StringArg(u) : u \in {<<>>, <<" ">>, <<"\t">>, <<"\n">>, SeededUser, ZeroUser,
                           UnseenUser, NegativeUser}}
    \cup {[type |-> t, text |-> <<>>] : t \in {"undefined", "number"}}

\* mutant: a whitespace-only userId passes the validation
InvalidUserIdUntrimmed(arg) ==
    \/ arg.type # "string"
    \/ arg.text = <<>>

\* !userId || typeof userId !== 'string' || userId.trim() === ''
InvalidUserId(arg) ==
    \/ arg.type # "string"
    \/ arg.text = <<>>
    \/ Trim(arg.text) = <<>>

\* mutant: an account without a balance item is answered with the seed balance
BalanceResponseSeedDefault(tbl, userId) ==
    IF createUserBalanceKey(userId) \in DOMAIN tbl
    THEN tbl[createUserBalanceKey(userId)].balance
    ELSE FromInt(SeedBalance)

\* the balance returned for the answer of the GetCommand
BalanceResponse(tbl, userId) ==
    IF createUserBalanceKey(userId) \in DOMAIN tbl
    THEN tbl[createUserBalanceKey(userId)].balance
    ELSE Zero

\* getCurrentBalance(arg) is invoked: the validation runs before the await
GetCurrentBalance(b, arg) ==
    /\ reads[b].pc = "idle"
    /\ IF b = 1 THEN TRUE ELSE reads[b - 1].pc # "idle"
    /\ reads' = [reads EXCEPT ![b] =
          IF InvalidUserId(arg)
          THEN [@ EXCEPT !.pc = "done", !.arg = arg, !.error = "INVALID_USER_ID"]
          ELSE [@ EXCEPT !.pc = "get", !.arg = arg]]
    /\ UNCHANGED <<table, calls, now, faults, responses, setup>>

\* the GetCommand returns
GetCurrentBalanceReturns(b) ==
    /\ reads[b].pc = "get"
    /\ TableActive
    /\ reads' = [reads EXCEPT ![b] =
          [@ EXCEPT !.pc = "done", !.balance = BalanceResponse(table, reads[b].arg.text)]]
    /\ UNCHANGED <<table, calls, now, faults, responses, setup>>

\* the GetCommand fails for a reason of the store
GetCurrentBalanceFails(b) ==
    /\ reads[b].pc = "get"
    /\ ~TableActive \/ faults < MaxFaults
    /\ faults' = IF TableActive THEN faults + 1 ELSE faults
    /\ reads' = [reads EXCEPT ![b] = [@ EXCEPT !.pc = "done", !.error = "DATABASE_ERROR"]]
    /\ UNCHANGED <<table, calls, now, responses, setup>>

\* the seeded account and the account put with a negative balance
InitBalance ==
    /\ table = Put(SeededTable, createUserBalanceKey(NegativeUser),
                   [SeedItem EXCEPT !.userId = NegativeUser,
                                    !.balance = FromInt(NegativeBalance)])
    /\ calls = [c \in Calls |-> IdleCall]
    /\ now = 0
    /\ faults = 0
    /\ reads = [b \in Reads |-> IdleRead]
    /\ responses = NoResponses
    /\ setup = SetupIdle("ACTIVE")

\* the transact calls made while balances are read
BalanceCalls == {1, 2}

\* the requests of these calls: every token, account and direction, one amount
BalanceRequests == {r \in ValidRequests : r.amount = <<"0", ".", "1">>}

\* balances are read while transact calls are served
NextBalance ==
    \/ \E c \in BalanceCalls, r \in BalanceRequests : Start(c, r)
    \/ \E c \in BalanceCalls : GetIdempotency(c)
    \/ \E c \in BalanceCalls : GetBalance(c)
    \/ \E c \in BalanceCalls : TransactWrite(c)
    \/ \E c \in BalanceCalls : PutFailed(c)
    \/ \E b \in Reads, arg \in BalanceArgs : GetCurrentBalance(b, arg)
    \/ \E b \in Reads : GetCurrentBalanceReturns(b)
    \/ \E b \in Reads : GetCurrentBalanceFails(b)

SpecBalance == InitBalance /\ [][NextBalance]_vars

\* -------------------------------------------------------------- HTTP layer
\* !value of a body field: undefined, the empty string and the number 0 are falsy
Truthy(v) ==
    \/ v.type = "string" /\ v.text # <<>>
    \/ v.type = "number" /\ v.text # <<"0">>

CreditText == <<"c", "r", "e", "d", "i", "t">>
DebitText == <<"d", "e", "b", "i", "t">>

\* the type named by the text of the body
TypeName(text) ==
    IF text = CreditText THEN "credit" ELSE IF text = DebitText THEN "debit" ELSE "other"

\* the error object that reaches app.onError for an error code of transact
\* or getCurrentBalance
ThrownError(code) ==
    [class |-> IF code = "INSUFFICIENT_FUNDS" THEN "InsufficientFundsError" ELSE "BalanceError",
     code |-> code]

\* an error thrown by the handler itself, outside transact and getCurrentBalance
UnexpectedError == [class |-> "Error", code |-> ""]

\* mutant: RACE_CONDITION has no case of its own and falls to the default
getStatusCodeForErrorNoConflict(code) ==
    IF code \in {"INVALID_USER_ID", "INVALID_IDEMPOTENT_KEY", "INVALID_AMOUNT",
                 "INVALID_AMOUNT_FORMAT", "INVALID_TRANSACTION_TYPE"} THEN 400
    ELSE IF code = "INSUFFICIENT_FUNDS" THEN 402
    ELSE IF code = "DUPLICATE_TRANSACTION" THEN 409
    ELSE 500

getStatusCodeForError(code) ==
    IF code \in {"INVALID_USER_ID", "INVALID_IDEMPOTENT_KEY", "INVALID_AMOUNT",
                 "INVALID_AMOUNT_FORMAT", "INVALID_TRANSACTION_TYPE"} THEN 400
    ELSE IF code = "INSUFFICIENT_FUNDS" THEN 402
    ELSE IF code = "DUPLICATE_TRANSACTION" THEN 409
    ELSE IF code = "RACE_CONDITION" THEN 409
    ELSE IF code \in {"DATABASE_ERROR", "TRANSACTION_ERROR"} THEN 500
    ELSE 500

\* app.onError: the response sent for an error thrown by a handler
OnError(body, error) ==
    IF error.class = "InsufficientFundsError"
    THEN [body |-> body, status |-> 402, success |-> FALSE, code |-> error.code]
    ELSE IF error.class = "BalanceError"
    THEN [body |-> body, status |-> getStatusCodeForError(error.code), success |-> FALSE,
          code |-> error.code]
    ELSE IF error.class = "ConditionalCheckFailedException"
    THEN [body |-> body, status |-> 402, success |-> FALSE, code |-> "INSUFFICIENT_FUNDS"]
    ELSE IF error.class = "TransactionCanceledException"
    THEN [body |-> body, status |-> 409, success |-> FALSE, code |-> "RACE_CONDITION"]
    ELSE [body |-> body, status |-> 500, success |-> FALSE, code |-> "INTERNAL_ERROR"]

\* c.json({success: false, error: {code: 'INVALID_REQUEST', ...}}, 400)
InvalidRequestResponse(body) ==
    [body |-> body, status |-> 400, success |-> FALSE, code |-> "INVALID_REQUEST"]

\* c.json({success: true, data: result})
OkResponse(body) == [body |-> body, status |-> 200, success |-> TRUE, code |-> ""]

\* the checks of POST /transact on the body, in the order of the code
TransactBodyRejected(body) ==
    \/ ~Truthy(body.idempotentKey) \/ ~Truthy(body.userId)
    \/ ~Truthy(body.amount) \/ ~Truthy(body.type)
    \/ body.type.type # "string" \/ TypeName(body.type.text) = "other"
    \/ body.amount.type # "string"

\* the request transact receives from the handler
RequestOf(body) ==
    [idempotentKey |-> body.idempotentKey.text, userId |-> body.userId.text,
     amount |-> body.amount.text,
     type |-> IF body.type.type = "string" THEN TypeName(body.type.text) ELSE "other"]

\* the input validation of transact on the fields of a body, in the order of
\* the code: a token, an account id or an amount that is falsy, is not a
\* string or is blank fails its check; the parsed amount and the type follow
ValidateBody(body) ==
    IF ~Truthy(body.idempotentKey) \/ body.idempotentKey.type # "string"
       \/ IsBlank(body.idempotentKey.text)
    THEN "INVALID_IDEMPOTENT_KEY"
    ELSE IF ~Truthy(body.userId) \/ body.userId.type # "string"
            \/ IsBlank(body.userId.text)
    THEN "INVALID_USER_ID"
    ELSE IF ~Truthy(body.amount) \/ body.amount.type # "string"
            \/ IsBlank(body.amount.text)
    THEN "INVALID_AMOUNT"
    ELSE Validate(RequestOf(body))

\* POST /transact receives a body: a body that is not a JSON object makes
\* the handler throw, a body that fails its checks is answered at once,
\* any other body is passed to transact
PostTransact(c, body) ==
    /\ calls[c].pc = "idle"
    /\ responses.transact[c] = NoResponse
    /\ IF c = 1 THEN TRUE ELSE responses.transact[c - 1] # NoResponse \/ calls[c - 1].pc # "idle"
    /\ IF body.json # "object"
       THEN /\ responses' = [responses EXCEPT !.transact[c] = OnError(body, UnexpectedError)]
            /\ calls' = calls
       ELSE IF TransactBodyRejected(body)
       THEN /\ responses' = [responses EXCEPT !.transact[c] = InvalidRequestResponse(body)]
            /\ calls' = calls
       ELSE /\ responses' = [responses EXCEPT !.transact[c] = [NoResponse EXCEPT !.body = body]]
            /\ \E code \in {ValidateBody(body)} :
                  calls' = [calls EXCEPT ![c] =
                     IF code = "OK"
                     THEN [@ EXCEPT !.pc = "getIdempotency", !.req = RequestOf(body)]
                     ELSE Settled([@ EXCEPT !.req = RequestOf(body)], code, NoResult)]
    /\ UNCHANGED <<table, now, faults, reads, setup>>

\* mutant: the outer success flag repeats the success flag of the result
RespondTransactInnerSuccess(c) ==
    /\ calls[c].pc = "done"
    /\ responses.transact[c].status = 0
    /\ responses' = [responses EXCEPT !.transact[c] =
          IF calls[c].error = ""
          THEN [OkResponse(@.body) EXCEPT !.success = calls[c].result.success]
          ELSE OnError(@.body, ThrownError(calls[c].error))]
    /\ UNCHANGED <<table, calls, now, faults, reads, setup>>

\* transact has settled: its result is sent, or its error goes to app.onError
RespondTransact(c) ==
    /\ calls[c].pc = "done"
    /\ responses.transact[c].status = 0
    /\ responses' = [responses EXCEPT !.transact[c] =
          IF calls[c].error = ""
          THEN OkResponse(@.body)
          ELSE OnError(@.body, ThrownError(calls[c].error))]
    /\ UNCHANGED <<table, calls, now, faults, reads, setup>>

\* !body.userId || typeof body.userId !== 'string'
BalanceBodyRejected(body) == ~Truthy(body.userId) \/ body.userId.type # "string"

\* POST /balance receives a body
PostBalance(b, body) ==
    /\ reads[b].pc = "idle"
    /\ responses.balance[b] = NoResponse
    /\ IF body.json # "object"
       THEN /\ responses' = [responses EXCEPT !.balance[b] = OnError(body, UnexpectedError)]
            /\ reads' = reads
       ELSE IF BalanceBodyRejected(body)
       THEN /\ responses' = [responses EXCEPT !.balance[b] = InvalidRequestResponse(body)]
            /\ reads' = reads
       ELSE /\ responses' = [responses EXCEPT !.balance[b] = [NoResponse EXCEPT !.body = body]]
            /\ reads' = [reads EXCEPT ![b] =
                  IF InvalidUserId(body.userId)
                  THEN [@ EXCEPT !.pc = "done", !.arg = body.userId, !.error = "INVALID_USER_ID"]
                  ELSE [@ EXCEPT !.pc = "get", !.arg = body.userId]]
    /\ UNCHANGED <<table, calls, now, faults, setup>>

\* getCurrentBalance has settled
RespondBalance(b) ==
    /\ reads[b].pc = "done"
    /\ responses.balance[b].status = 0
    /\ responses' = [responses EXCEPT !.balance[b] =
          IF reads[b].error = ""
          THEN OkResponse(@.body)
          ELSE OnError(@.body, ThrownError(reads[b].error))]
    /\ UNCHANGED <<table, calls, now, faults, reads, setup>>

\* ------------------------------------------- specification: HTTP requests
\* a well-formed body of POST /transact on the unseen account
ObjectBody(k, u, a, t) ==
    [json |-> "object", idempotentKey |-> k, userId |-> u, amount |-> a, type |-> t]

WellFormedBodies ==
    {ObjectBody(StringArg(k), StringArg(UnseenUser), StringArg(<<"5", "0", "0">>), StringArg(t)) :
        k \in TokenInputs, t \in {CreditText, DebitText}}

\* the values that take the place of one field in a body that is not well formed
BadValues ==
    {JsUndefined, NumberValue(<<"5">>), NumberValue(<<"0">>), StringArg(<<>>),
     StringArg(<<" ">>), StringArg(<<"\t">>), StringArg(<<"x">>)}

BaseBody ==
    ObjectBody(StringArg(<<"s">>), StringArg(UnseenUser), StringArg(<<"5", "0", "0">>),
               StringArg(CreditText))

\* bodies that are not a JSON object: the literal null, and text that does not parse
NonObjectBodies == {[NoBody EXCEPT !.json = "null"], [NoBody EXCEPT !.json = "malformed"]}

TransactBodies ==
    WellFormedBodies
    \cup {[BaseBody EXCEPT !.idempotentKey = v] : v \in BadValues \ {StringArg(<<"x">>)}}
    \cup {[BaseBody EXCEPT !.userId = v] : v \in BadValues \ {StringArg(<<"x">>)}}
    \cup {[BaseBody EXCEPT !.amount = v] : v \in BadValues}
    \cup {[BaseBody EXCEPT !.type = v] : v \in BadValues}
    \cup NonObjectBodies

BalanceBodies ==
    {[NoBody EXCEPT !.json = "object", !.userId = v] :
        v \in (BadValues \ {StringArg(<<"x">>)}) \cup {StringArg(UnseenUser)}}
    \cup NonObjectBodies

\* the requests served at once
HttpCalls == {1, 2}
HttpReads == {1}

NextHttp ==
    \/ \E c \in HttpCalls, body \in TransactBodies : PostTransact(c, body)
    \/ \E c \in HttpCalls : GetIdempotency(c)
    \/ \E c \in HttpCalls : GetBalance(c)
    \/ \E c \in HttpCalls : TransactWrite(c)
    \/ \E c \in HttpCalls : PutFailed(c)
    \/ \E c \in HttpCalls : StoreFails(c)
    \/ \E c \in HttpCalls : PutFailedFails(c)
    \/ \E c \in HttpCalls : RespondTransact(c)
    \/ \E b \in HttpReads, body \in BalanceBodies : PostBalance(b, body)
    \/ \E b \in HttpReads : GetCurrentBalanceReturns(b)
    \/ \E b \in HttpReads : GetCurrentBalanceFails(b)
    \/ \E b \in HttpReads : RespondBalance(b)

SpecHttp == Init /\ [][NextHttp]_vars

\* ---------------------- specification: failures on an unseen account
\* the requests on the account the seed does not know
UnseenRequests == {r \in ValidRequests : r.userId = UnseenUser}

\* the transact calls made on the unseen account
UnseenCalls == {1, 2}

\* transact calls on the unseen account, with failures of the store, while
\* the balance of the account is read
NextUnseen ==
    \/ \E c \in UnseenCalls, r \in UnseenRequests : Start(c, r)
    \/ \E c \in UnseenCalls : GetIdempotency(c)
    \/ \E c \in UnseenCalls : GetBalance(c)
    \/ \E c \in UnseenCalls : TransactWrite(c)
    \/ \E c \in UnseenCalls : PutFailed(c)
    \/ \E c \in UnseenCalls : StoreFails(c)
    \/ \E c \in UnseenCalls : PutFailedFails(c)
    \/ \E b \in Reads : GetCurrentBalance(b, StringArg(UnseenUser))
    \/ \E b \in Reads : GetCurrentBalanceReturns(b)
    \/ \E b \in Reads : GetCurrentBalanceFails(b)

SpecUnseen == Init /\ [][NextUnseen]_vars

\* ------------------------------------------- specification: store keys
\* account ids and tokens that contain the separator, a prefix of another
\* kind of key, or a blank
KeyUsers ==
    {<<"a">>, <<" ", "a">>, <<"a", "#">>, TxnPrefix \o <<"s">>, <<"b">>}

KeyTokens ==
    {<<"s">>, <<"s", "#">>, <<"a">>, UserPrefix \o <<"a">>, <<"t">>}

\* the timestamps the items can carry
KeyTimes == {ToISOString(t) : t \in 0..MaxTime}

KeyRequests ==
    [idempotentKey : KeyTokens, userId : KeyUsers, amount : {<<"5", "0", "0">>},
     type : {"credit"}]

\* the transact calls that write the keys
KeyCalls == {1, 2}

NextKeys ==
    \/ \E c \in KeyCalls, r \in KeyRequests : Invoke(c, r)
    \/ \E c \in KeyCalls : GetIdempotency(c)
    \/ \E c \in KeyCalls : GetBalance(c)
    \/ \E c \in KeyCalls : TransactWrite(c)
    \/ \E c \in KeyCalls : PutFailed(c)

SpecKeys == Init /\ [][NextKeys]_vars

\* ------------------------- specification: one call at a time per account
\* no call on the account is between its invocation and its settlement
NoCallInFlightOn(userId) ==
    \A d \in InFlight : calls[d].req.userId # userId

\* callers invoke transact on an account only when no other call on that
\* account is in flight; calls on different accounts overlap
NextSequential ==
    \/ \E c \in Calls, r \in Requests : NoCallInFlightOn(r.userId) /\ Start(c, r)
    \/ \E c \in Calls : GetIdempotency(c)
    \/ \E c \in Calls : GetBalance(c)
    \/ \E c \in Calls : TransactWrite(c)
    \/ \E c \in Calls : PutFailed(c)
    \/ \E c \in Calls : StoreFails(c)
    \/ \E c \in Calls : PutFailedFails(c)

SpecSequential == Init /\ [][NextSequential]_vars

\* ------------------------------------------------- setup.ts: the table
\* the commands of setup.ts
SetupCommands == {"create", "delete", "recreate"}

\* the run of setup.ts ends: main returns, or an error reaches main().catch
SetupEnds == [setup EXCEPT !.pc = "idle"]

\* main: `bun run setup.ts <command>` starts
RunSetup(command) ==
    /\ setup.pc = "idle"
    /\ setup' = [setup EXCEPT !.pc = IF command = "create" THEN "describe" ELSE "delete",
                              !.command = command, !.seeded = 0, !.attempts = 0,
                              !.stamp = 0]
    /\ UNCHANGED <<table, calls, now, faults, reads, responses>>

\* deleteTable: the DeleteTableCommand is answered; the table goes with all
\* its items, a table that does not exist is skipped. `recreate` then waits
DeleteTable ==
    /\ setup.pc = "delete"
    /\ table' = <<>>
    /\ setup' = [setup EXCEPT !.status = "NONE",
                              !.pc = IF setup.command = "recreate" THEN "wait" ELSE "idle"]
    /\ UNCHANGED <<calls, now, faults, reads, responses>>

\* the wait of `recreate` for the deletion is over
WaitForDeletion ==
    /\ setup.pc = "wait"
    /\ setup' = [setup EXCEPT !.pc = "describe"]
    /\ UNCHANGED <<table, calls, now, faults, reads, responses>>

\* createTable: the first DescribeTableCommand is answered; a table that
\* exists is not created again, createTable returns and seedData stamps its
\* first item with the clock and sends the PutCommand; otherwise the CreateTableCommand is sent
DescribeTable ==
    /\ setup.pc = "describe"
    /\ IF setup.status = "NONE"
       THEN /\ now' = now
            /\ setup' = [setup EXCEPT !.pc = "create"]
       ELSE \E t \in ClockReadings :
            /\ now' = t
            /\ setup' = [setup EXCEPT !.pc = "seed", !.stamp = t]
    /\ UNCHANGED <<table, calls, faults, reads, responses>>

\* createTable: the CreateTableCommand is answered, the table is being
\* created; the waiting loop sends its first DescribeTableCommand
CreateTable ==
    /\ setup.pc = "create"
    /\ table' = <<>>
    /\ setup' = [setup EXCEPT !.status = "CREATING", !.pc = "poll"]
    /\ UNCHANGED <<calls, now, faults, reads, responses>>

\* the store finishes the creation of the table
TableBecomesActive ==
    /\ setup.status = "CREATING"
    /\ setup' = [setup EXCEPT !.status = "ACTIVE"]
    /\ UNCHANGED <<table, calls, now, faults, reads, responses>>

\* createTable: a DescribeTableCommand of the waiting loop is answered; on
\* ACTIVE the loop is left, createTable returns and seedData stamps and
\* sends its first PutCommand; otherwise the wait of 1000 ms begins
PollTable ==
    /\ setup.pc = "poll"
    /\ IF setup.status = "ACTIVE"
       THEN \E t \in ClockReadings :
            /\ now' = t
            /\ setup' = [setup EXCEPT !.pc = "seed", !.stamp = t]
       ELSE /\ now' = now
            /\ setup' = [setup EXCEPT !.pc = "pollWait"]
    /\ UNCHANGED <<table, calls, faults, reads, responses>>

\* createTable: a DescribeTableCommand of the waiting loop fails; the error
\* is caught in the loop and the wait of 1000 ms begins, whatever the
\* status of the table
PollTableFails ==
    /\ setup.pc = "poll"
    /\ faults < MaxFaults
    /\ faults' = faults + 1
    /\ setup' = [setup EXCEPT !.pc = "pollWait"]
    /\ UNCHANGED <<table, calls, now, reads, responses>>

\* createTable: the wait of 1000 ms of the loop is over and the attempt is
\* counted; below maxAttempts the next DescribeTableCommand is sent, at
\* maxAttempts the loop is left with isActive false and "Table creation
\* timed out" is thrown to main().catch
PollWaitEnds ==
    /\ setup.pc = "pollWait"
    /\ setup' = IF setup.attempts + 1 < maxAttempts
                THEN [setup EXCEPT !.attempts = @ + 1, !.pc = "poll"]
                ELSE [setup EXCEPT !.attempts = @ + 1, !.pc = "idle"]
    /\ UNCHANGED <<table, calls, now, faults, reads, responses>>

\* seedData: the PutCommand of an account is answered and the item goes to
\* the table with the stamp it was given before the send; the loop then
\* stamps and sends the PutCommand of the next account, or seedData
\* returns. A table that is not active refuses the Put
SeedPut ==
    /\ setup.pc = "seed"
    /\ IF TableActive
       THEN /\ table' = Put(table, createUserBalanceKey(seedUsers[setup.seeded + 1].userId),
                              SeedItemOf(setup.seeded + 1, setup.stamp))
            /\ IF setup.seeded + 1 = Len(seedUsers)
               THEN /\ now' = now
                    /\ setup' = [setup EXCEPT !.seeded = @ + 1, !.pc = "idle"]
               ELSE \E t \in ClockReadings :
                    /\ now' = t
                    /\ setup' = [setup EXCEPT !.seeded = @ + 1, !.pc = "seed", !.stamp = t]
       ELSE /\ now' = now
            /\ table' = table
            /\ setup' = SetupEnds
    /\ UNCHANGED <<calls, faults, reads, responses>>

\* a command of setup.ts fails for a reason of the store: the error is
\* thrown to main().catch (a failed DescribeTableCommand of the waiting loop
\* is caught there, see PollTableFails)
SetupFails ==
    /\ setup.pc \in {"delete", "describe", "create", "seed"}
    /\ faults < MaxFaults
    /\ faults' = faults + 1
    /\ setup' = SetupEnds
    /\ UNCHANGED <<table, calls, now, reads, responses>>

\* ------------------------- specification: setup.ts runs beside the engine
\* the store has no table
InitSetup ==
    /\ table = <<>>
    /\ calls = [c \in Calls |-> IdleCall]
    /\ now = 0
    /\ faults = 0
    /\ reads = [b \in Reads |-> IdleRead]
    /\ responses = NoResponses
    /\ setup = SetupIdle("NONE")

\* the transact call and the balance read made while setup.ts runs
SetupCalls == {1}
SetupReads == {1}

\* credits and debits of 0.1 on the first seeded account
SetupRequests ==
    {r \in ValidRequests : r.userId = SeededUser /\ r.amount = <<"0", ".", "1">>}

NextSetup ==
    \/ \E command \in SetupCommands : RunSetup(command)
    \/ DeleteTable
    \/ WaitForDeletion
    \/ DescribeTable
    \/ CreateTable
    \/ TableBecomesActive
    \/ PollTable
    \/ PollTableFails
    \/ PollWaitEnds
    \/ SeedPut
    \/ SetupFails
    \/ \E c \in SetupCalls, r \in SetupRequests : Start(c, r)
    \/ \E c \in SetupCalls : GetIdempotency(c)
    \/ \E c \in SetupCalls : GetBalance(c)
    \/ \E c \in SetupCalls : TransactWrite(c)
    \/ \E c \in SetupCalls : PutFailed(c)
    \/ \E c \in SetupCalls : StoreFails(c)
    \/ \E c \in SetupCalls : PutFailedFails(c)
    \/ \E b \in SetupReads : GetCurrentBalance(b, StringArg(SeededUser))
    \/ \E b \in SetupReads : GetCurrentBalanceReturns(b)
    \/ \E b \in SetupReads : GetCurrentBalanceFails(b)

SpecSetup == InitSetup /\ [][NextSetup]_vars

\* ------------------------------------------------------------ observations
BalanceKeys == {k \in DOMAIN table : k.SK = BalanceSK}

HasBalance(userId) == createUserBalanceKey(userId) \in DOMAIN table

BalanceOf(userId) ==
    IF HasBalance(userId) THEN table[createUserBalanceKey(userId)].balance ELSE Zero

VersionOf(userId) ==
    IF HasBalance(userId) THEN table[createUserBalanceKey(userId)].version ELSE 0

\* the accounts seedData puts
SeededUsers == {seedUsers[i].userId : i \in 1..Len(seedUsers)}

InitialBalance(userId) ==
    IF userId \in SeededUsers
    THEN FromInt(seedUsers[CHOOSE i \in 1..Len(seedUsers) : seedUsers[i].userId = userId].balance)
    ELSE Zero

InitialVersion(userId) == IF userId \in SeededUsers THEN SeedVersion ELSE 0

Done(c) == calls[c].pc = "done"

\* the call settled with its own atomic commit applied
Committed(c) ==
    Done(c) /\ calls[c].result.message = "Transaction completed successfully"

\* the call settled with a result whose success flag is set
ReportedSuccess(c) == Done(c) /\ calls[c].error = "" /\ calls[c].result.success

Quiescent == \A c \in Calls : calls[c].pc \in {"idle", "done"}

\* the amount of the request of a call
AmountOf(c) == Amount(calls[c].req.amount).val

SignedAmount(c) ==
    IF calls[c].req.type = "credit" THEN AmountOf(c) ELSE Negate(AmountOf(c))

\* x <= y and x > y for Numbers
JsLessEq(x, y) == ~JsLess(y, x)
JsGreater(x, y) == JsLess(y, x)

\* b is b0 with the signed amounts of the calls cs added one at a time, in
\* some order, in the arithmetic of Numbers
RECURSIVE SumsTo(_, _, _)
SumsTo(cs, b0, b) ==
    IF cs = {} THEN b0 = b
    ELSE \E c \in cs : SumsTo(cs \ {c}, JsAdd(b0, SignedAmount(c)), b)

\* ------------------------------------------------------------------ claims

\* C1: for every idempotency token and every interleaving, at most one
\* successful atomic commit is ever applied for the token.
C1_AtMostOneCommitPerToken ==
    \A k \in TokenInputs :
        Cardinality({c \in Calls : Committed(c) /\ calls[c].req.idempotentKey = k}) <= 1

\* C2: an account that starts with a non-negative balance has a non-negative
\* stored balance in every reachable state.
C2_BalanceNeverNegative ==
    \A k \in BalanceKeys : ~IsNegative(table[k].balance)

\* C2 witness: a debit emptied an account and a further debit on it was refused
C2_Witness ==
    \E c, d \in Calls :
        /\ Committed(c) /\ calls[c].req.type = "debit" /\ IsZero(calls[c].result.newBalance)
        /\ Done(d) /\ calls[d].error = "INSUFFICIENT_FUNDS"
        /\ calls[d].req.userId = calls[c].req.userId
        /\ HasBalance(calls[c].req.userId) /\ IsZero(BalanceOf(calls[c].req.userId))

\* C3 as stated: once all calls have settled, the balance of each account is
\* its initial balance plus the credits minus the debits of exactly the calls
\* on it that reported success.
C3_SumOverReportedSuccess ==
    Quiescent =>
        \A u \in UserInputs :
            SumsTo({c \in Calls : ReportedSuccess(c) /\ calls[c].req.userId = u},
                   InitialBalance(u), BalanceOf(u))

\* C3 amended: in every reachable state the balance of each account is its
\* initial balance with the credits added and the debits subtracted, one at a
\* time in the arithmetic of Numbers, of exactly the calls on it whose own
\* commit was applied; a replay reports success and adds nothing.
C3_SumOverCommitted ==
    \A u \in UserInputs :
        SumsTo({c \in Calls : Committed(c) /\ calls[c].req.userId = u},
               InitialBalance(u), BalanceOf(u))

\* C3 witness: on one account a credit and a debit were committed and a third
\* call replayed one of them with success
C3_Witness ==
    /\ Quiescent
    /\ \E c, d, e \in Calls :
        /\ Committed(c) /\ calls[c].req.type = "credit"
        /\ Committed(d) /\ calls[d].req.type = "debit"
        /\ calls[c].req.userId = calls[d].req.userId
        /\ calls[e].req = calls[c].req
        /\ ReportedSuccess(e) /\ ~Committed(e)

\* the calls on an account whose commit was applied
CommittedOn(userId) == {c \in Calls : Committed(c) /\ calls[c].req.userId = userId}

\* C4: every successful commit raises the version of its account by exactly 1
\* (an unseen account goes to 1), no two successful commits on an account
\* were made from the same observed version, and a writer still holding a
\* version that another writer committed from will be rejected.
C4_VersionStepsByOne ==
    \A u \in UserInputs :
        /\ VersionOf(u) = InitialVersion(u) + Cardinality(CommittedOn(u))
        /\ \A c \in CommittedOn(u) :
              /\ calls[c].currentVersion >= InitialVersion(u)
              /\ calls[c].currentVersion < VersionOf(u)
        /\ \A c, d \in CommittedOn(u) :
              c # d => calls[c].currentVersion # calls[d].currentVersion
        /\ \A c \in Calls, d \in CommittedOn(u) :
              ( /\ calls[c].pc = "transactWrite"
                /\ calls[c].req.userId = u
                /\ calls[c].currentVersion = calls[d].currentVersion )
              => (HasBalance(u) /\ VersionOf(u) # calls[c].currentVersion)

\* C4 witness: two writers read an unseen account, one created it at version 1
\* and the other was rejected
C4_Witness ==
    \E c, d \in Calls :
        /\ Committed(c) /\ calls[c].currentVersion = 0
        /\ VersionOf(calls[c].req.userId) = 1
        /\ Done(d) /\ calls[d].error = "RACE_CONDITION"
        /\ calls[d].req.userId = calls[c].req.userId

\* C5: after a call failed with RACE_CONDITION, the retry with the same token
\* and inputs either replays a completed outcome or proceeds to a fresh read;
\* a retry that returns a result therefore returns a success.
C5_RetryAfterRaceIsSafe ==
    \A c \in Calls :
        (calls[c].retry /\ Done(c) /\ calls[c].error = "") => calls[c].result.success

IdempotencyKeys == {k \in DOMAIN table : k.SK = ResultSK}

\* C6: once an idempotency item with status completed is stored for a token,
\* no step overwrites it: it keeps status completed and its newBalance.
C6_CompletedNeverOverwritten ==
    [][\A k \in IdempotencyKeys :
          table[k].status = "completed" =>
              /\ k \in DOMAIN table'
              /\ table'[k].status = "completed"
              /\ table'[k].newBalance = table[k].newBalance]_vars

\* C7: per token the only transitions are unseen to completed and unseen to
\* failed, both terminal: the status of a stored item never changes, no commit
\* is applied for a token whose item exists, and every lookup of such a token
\* that the store answers returns the replay.
C7_TokenStatesTerminal ==
    [][\A k \in IdempotencyKeys :
          /\ k \in DOMAIN table'
          /\ table'[k].status = table[k].status
          /\ \A c \in Calls :
                calls[c].req.idempotentKey = table[k].idempotentKey =>
                    /\ ~(~Committed(c) /\ Committed(c)')
                    /\ ( /\ calls[c].pc = "getIdempotency"
                         /\ calls'[c] # calls[c]
                         /\ faults' = faults )
                       => ( /\ calls'[c].pc = "done"
                            /\ calls'[c].error = ""
                            /\ calls'[c].result.message \in
                                  {"Transaction already processed (idempotent)",
                                   "Transaction previously failed"} )]_vars

\* C8: a lookup that finds a completed idempotency item for the token returns
\* success=true with the stored account, amount, direction and resulting
\* balance and the 'already processed (idempotent)' message; the call reads no
\* balance and writes nothing.
C8_ReplayOfCompleted ==
    [][\A c \in Calls :
          LET cl == calls[c]
              key == createIdempotencyKey(cl.req.idempotentKey)
          IN  ( /\ cl.pc = "getIdempotency"
                /\ calls'[c] # cl
                /\ faults' = faults
                /\ key \in DOMAIN table
                /\ table[key].status = "completed" )
              => /\ calls'[c].pc = "done"
                 /\ calls'[c].error = ""
                 /\ calls'[c].result =
                       [success |-> TRUE,
                        idempotentKey |-> cl.req.idempotentKey,
                        userId |-> table[key].userId,
                        amount |-> table[key].amount,
                        type |-> table[key].type,
                        newBalance |-> table[key].newBalance,
                        message |-> "Transaction already processed (idempotent)"]
                 /\ table' = table]_vars

\* C8 witness: a call was answered with the stored outcome of another request
\* that had used its token
C8_Witness ==
    \E c \in Calls :
        /\ Done(c)
        /\ calls[c].result.message = "Transaction already processed (idempotent)"
        /\ calls[c].result.userId # calls[c].req.userId
        /\ calls[c].result.amount # calls[c].req.amount

\* the keys whose item a step writes or changes
ChangedKeys == {k \in DOMAIN table' : k \notin DOMAIN table \/ table'[k] # table[k]}

\* C9: the commit is all-or-nothing. When the version condition fails,
\* nothing is written and the call raises RACE_CONDITION; when it holds, the
\* balance item, the ledger item and the completed idempotency item are
\* written in one step; no step writes only part of a commit.
C9_CommitAllOrNothing ==
    [][/\ \A c \in Calls :
            LET cl == calls[c]
                bk == createUserBalanceKey(cl.req.userId)
                lk == createTransactionKey(cl.req.userId, ToISOString(cl.time),
                                           cl.req.idempotentKey)
                ik == createIdempotencyKey(cl.req.idempotentKey)
            IN  /\ ( /\ cl.pc = "transactWrite"
                     /\ calls'[c] # cl
                     /\ faults' = faults )
                   => IF bk \notin DOMAIN table \/ table[bk].version = cl.currentVersion
                      THEN /\ {bk, lk, ik} \subseteq DOMAIN table'
                           /\ table'[bk].balance = cl.newBalance
                           /\ table'[bk].version = cl.currentVersion + 1
                           /\ table'[lk].status = "completed"
                           /\ table'[lk].idempotentKey = cl.req.idempotentKey
                           /\ table'[lk].balanceAfter = cl.newBalance
                           /\ table'[ik].status = "completed"
                           /\ table'[ik].newBalance = cl.newBalance
                           /\ bk \in ChangedKeys
                           /\ ChangedKeys \subseteq {bk, lk, ik}
                           /\ Committed(c)'
                      ELSE /\ table' = table
                           /\ calls'[c].pc = "putFailed"
                           /\ calls'[c].error = "RACE_CONDITION"
                /\ ( /\ cl.pc = "putFailed"
                     /\ cl.error = "RACE_CONDITION"
                     /\ calls'[c] # cl )
                   => (calls'[c].pc = "done" /\ calls'[c].error = "RACE_CONDITION")
       /\ DOMAIN table \subseteq DOMAIN table'
       /\ ChangedKeys # {} =>
            \/ \E c \in Calls : calls[c].pc = "transactWrite" /\ Committed(c)'
            \/ \E k \in IdempotencyKeys' : ChangedKeys = {k} /\ table'[k].status = "failed"]_vars

\* C10: a debit whose amount exceeds the balance read fails with
\* INSUFFICIENT_FUNDS; the call leaves the balance item and the ledger items
\* as they are, and its only write is an idempotency item with status failed
\* and newBalance 0 for its token.
C10_InsufficientFundsWritesOnlyFailure ==
    [][\A c \in Calls :
          LET cl == calls[c]
              ik == createIdempotencyKey(cl.req.idempotentKey)
          IN  /\ ( /\ cl.pc = "getBalance"
                   /\ calls'[c] # cl
                   /\ faults' = faults
                   /\ cl.req.type = "debit"
                   /\ JsGreater(Amount(cl.req.amount).val, BalanceOf(cl.req.userId)) )
                 => /\ calls'[c].pc = "putFailed"
                    /\ calls'[c].error = "INSUFFICIENT_FUNDS"
                    /\ table' = table
              /\ ( /\ cl.pc = "putFailed"
                   /\ cl.error = "INSUFFICIENT_FUNDS"
                   /\ calls'[c] # cl )
                 => /\ calls'[c].pc = "done"
                    /\ calls'[c].error = "INSUFFICIENT_FUNDS"
                    /\ ChangedKeys \subseteq {ik}
                    /\ DOMAIN table \subseteq DOMAIN table'
                    /\ ChangedKeys = {ik} =>
                          /\ table'[ik].status = "failed"
                          /\ table'[ik].newBalance = Zero
                          /\ table'[ik].idempotentKey = cl.req.idempotentKey
                          /\ table'[ik].userId = cl.req.userId]_vars

\* C10 witness: a debit on the seeded account was refused for insufficient
\* funds and its token is recorded as failed with balance 0
C10_Witness ==
    \E c \in Calls :
        LET ik == createIdempotencyKey(calls[c].req.idempotentKey)
        IN  /\ Done(c) /\ calls[c].error = "INSUFFICIENT_FUNDS"
            /\ calls[c].req.userId = SeededUser
            /\ ik \in DOMAIN table
            /\ table[ik].status = "failed" /\ table[ik].newBalance = Zero
            /\ table[ik].userId = SeededUser

\* C11: a lookup that finds a failed idempotency item for the token returns
\* (does not raise) success=false, resulting balance 0 and the 'previously
\* failed' message, and writes nothing: the balance and the version of the
\* account stay as they are, whatever the balance has become since.
C11_ReplayOfFailed ==
    [][\A c \in Calls :
          LET cl == calls[c]
              key == createIdempotencyKey(cl.req.idempotentKey)
          IN  ( /\ cl.pc = "getIdempotency"
                /\ calls'[c] # cl
                /\ faults' = faults
                /\ key \in DOMAIN table
                /\ table[key].status = "failed" )
              => /\ calls'[c].pc = "done"
                 /\ calls'[c].error = ""
                 /\ calls'[c].result.success = FALSE
                 /\ calls'[c].result.newBalance = Zero
                 /\ calls'[c].result.message = "Transaction previously failed"
                 /\ table' = table]_vars

\* C11 witness: a debit that had failed was replayed as failed although the
\* account by then held enough for it
C11_Witness ==
    \E c \in Calls :
        /\ Done(c) /\ calls[c].error = ""
        /\ calls[c].result.message = "Transaction previously failed"
        /\ calls[c].req.type = "debit"
        /\ calls[c].result.userId = calls[c].req.userId
        /\ calls[c].result.amount = calls[c].req.amount
        /\ calls[c].result.type = "debit"
        /\ JsLessEq(Amount(calls[c].req.amount).val, BalanceOf(calls[c].req.userId))

\* the codes of the input-validation errors
ValidationCodes ==
    {"INVALID_IDEMPOTENT_KEY", "INVALID_USER_ID", "INVALID_AMOUNT", "INVALID_TRANSACTION_TYPE"}

\* an amount that parses as a positive, finite number
PositiveFiniteAmount(s) ==
    /\ ~Amount(s).nan
    /\ IsPositive(Amount(s).val)
    /\ IsFinite(Amount(s).val)

\* a request that the input rules reject: blank token, blank account id,
\* invalid amount, or a direction that is not exactly credit or debit
MalformedRequest(r) ==
    \/ Trim(r.idempotentKey) = <<>>
    \/ Trim(r.userId) = <<>>
    \/ Trim(r.amount) = <<>>
    \/ ~PositiveFiniteAmount(r.amount)
    \/ r.type \notin {"credit", "debit"}

\* C12: a request with a blank token, a blank account id, an invalid amount
\* or a direction other than exactly credit or debit is rejected with a
\* validation error in the step that makes it, before any store request: the
\* call settles at once, the table is unchanged, and the call never reads or
\* writes afterwards.
C12_MalformedRejectedBeforeStore ==
    [][\A c \in Calls :
          (calls'[c].pc # "idle" /\ MalformedRequest(calls'[c].req))
          => /\ calls'[c].pc = "done"
             /\ calls'[c].error \in ValidationCodes
             /\ calls'[c].result = NoResult
             /\ calls'[c] # calls[c] => table' = table]_vars

\* C13: transact accepts an amount only if it parses as a positive, finite
\* number: a request with a token and an account id whose amount is empty,
\* non-numeric, zero, negative or not finite is rejected with INVALID_AMOUNT.
C13_OnlyPositiveFiniteAccepted ==
    \A c \in Calls :
        ( /\ calls[c].pc # "idle"
          /\ Trim(calls[c].req.idempotentKey) # <<>>
          /\ Trim(calls[c].req.userId) # <<>>
          /\ ~PositiveFiniteAmount(calls[c].req.amount) )
        => (Done(c) /\ calls[c].error = "INVALID_AMOUNT" /\ calls[c].result = NoResult)

\* the debits of the race that returned a success
RaceSucceeded == {c \in RaceDebits : ReportedSuccess(c)}

RaceSettled == \A c \in RaceCalls : Done(c)

\* the debits of the race that did not succeed raised one of the two errors
RaceFailuresExplained ==
    \A c \in RaceDebits \ RaceSucceeded :
        calls[c].error \in {"INSUFFICIENT_FUNDS", "RACE_CONDITION"}

\* C14: of 5 concurrent debits of 50 with distinct tokens on an
\* account holding 100, exactly 2 succeed and the final balance is 0, the
\* other 3 fail with INSUFFICIENT_FUNDS or RACE_CONDITION, and at every moment
\* the number of successes times 50 is at most 100.
C14_ExactlyTwoSucceed ==
    /\ Cardinality(RaceSucceeded) * 50 <= 100
    /\ RaceSettled =>
          /\ Cardinality(RaceSucceeded) = 2
          /\ BalanceOf(UnseenUser) = Zero
          /\ RaceFailuresExplained

\* C15: when identical requests with one token are issued concurrently, once
\* they have settled every one of them has returned (none raised) success
\* with the same newBalance, the prior balance plus the amount applied once,
\* and the account's balance has been affected exactly once.
C15_IdenticalRequestsApplyOnce ==
    (\A c \in IdenticalCalls : Done(c)) =>
        /\ \A c \in IdenticalRepeats :
              /\ calls[c].error = ""
              /\ calls[c].result.success
              /\ calls[c].result.newBalance = FromInt(100 + 25)
        /\ BalanceOf(UnseenUser) = FromInt(100 + 25)

\* C16: when calls with distinct tokens run concurrently on one account whose
\* funds suffice for all of them in any order, once they have settled every
\* call has succeeded and the balance is the initial balance plus all the
\* requested credits minus all the requested debits.
C16_AllConcurrentSucceed ==
    (\A c \in ConcurrentCalls : Done(c)) =>
        /\ \A c \in ConcurrentCalls : ReportedSuccess(c)
        /\ SumsTo(ConcurrentCalls, InitialBalance(SeededUser), BalanceOf(SeededUser))

\* C17: the answer of getCurrentBalance is 0 for an account without a balance
\* item and the stored balance otherwise, a negative one included; when the
\* latest commit on the account is that of a transact call that returned
\* newBalance b, the answer is b.
C17_BalanceIsStoredBalance ==
    [][\A b \in Reads :
          LET u == reads[b].arg.text
              key == createUserBalanceKey(u)
          IN  (reads[b].pc = "get" /\ reads'[b].pc = "done" /\ faults' = faults)
              => /\ reads'[b].error = ""
                 /\ reads'[b].arg = reads[b].arg
                 /\ reads'[b].balance = (IF key \in DOMAIN table THEN table[key].balance ELSE Zero)
                 /\ \A c \in Calls :
                       ( /\ Committed(c)
                         /\ calls[c].req.userId = u
                         /\ calls[c].currentVersion + 1 = VersionOf(u) )
                       => reads'[b].balance = calls[c].result.newBalance]_vars

\* C17 witness: one read returned the negative balance that had been put, and
\* another returned the newBalance of the commit that created an account
C17_Witness ==
    \E b, d \in Reads :
        /\ reads[b].pc = "done" /\ reads[b].error = ""
        /\ reads[b].arg = StringArg(NegativeUser) /\ reads[b].balance = FromInt(NegativeBalance)
        /\ reads[d].pc = "done" /\ reads[d].error = ""
        /\ reads[d].arg = StringArg(UnseenUser)
        /\ \E c \in Calls :
              /\ Committed(c) /\ calls[c].req.userId = UnseenUser
              /\ calls[c].currentVersion = 0 /\ VersionOf(UnseenUser) = 1
              /\ reads[d].balance = calls[c].result.newBalance
              /\ IsPositive(reads[d].balance)

\* C18: getCurrentBalance writes nothing, whatever its argument, and so
\* creates no balance item for an unseen account; an argument that is not a
\* string, or is empty or whitespace-only, is rejected with INVALID_USER_ID
\* in the step that makes the call, and only other arguments reach the store.
C18_ReadHasNoSideEffect ==
    [][/\ reads' # reads => (table' = table /\ calls' = calls)
       /\ \A b \in Reads :
             /\ ( /\ reads[b].pc = "idle" /\ reads'[b].pc # "idle"
                  /\ \/ reads'[b].arg.type # "string"
                     \/ Trim(reads'[b].arg.text) = <<>> )
                => (reads'[b].pc = "done" /\ reads'[b].error = "INVALID_USER_ID")
             /\ reads'[b].pc = "get"
                => (reads'[b].arg.type = "string" /\ Trim(reads'[b].arg.text) # <<>>)]_vars

\* C18 witness: the balance of an unseen account was read as 0 and the
\* account still has no balance item, and a whitespace-only id was rejected
C18_Witness ==
    \E b, d \in Reads :
        /\ reads[b].pc = "done" /\ reads[b].error = ""
        /\ reads[b].arg = StringArg(UnseenUser) /\ reads[b].balance = Zero
        /\ ~HasBalance(UnseenUser)
        /\ reads[d].pc = "done" /\ reads[d].error = "INVALID_USER_ID"
        /\ reads[d].arg = StringArg(<<" ">>)

\* the steps of the try block that wait for the store
TrySteps == {"getIdempotency", "getBalance", "transactWrite"}

\* C19: a failure of transact that is not an input-validation error
\* (INSUFFICIENT_FUNDS, RACE_CONDITION, a failure of the store) never settles
\* the call at once: it is followed by one attempt to put an idempotency item
\* with status failed and newBalance 0 under the token of the call; whether
\* the put succeeds or fails, the call then raises the error that was caught
\* (a failure of the store wrapped as TRANSACTION_ERROR), never another one.
C19_FailureRecordedBestEffort ==
    [][\A c \in Calls :
          LET cl == calls[c]
              ik == createIdempotencyKey(cl.req.idempotentKey)
          IN  /\ (cl.pc \in TrySteps /\ calls'[c].pc = "done") => calls'[c].error = ""
              /\ (cl.pc \in TrySteps /\ calls'[c].pc = "putFailed")
                 => /\ calls'[c].error \in {"INSUFFICIENT_FUNDS", "RACE_CONDITION", "AWS_ERROR"}
                    /\ table' = table
              /\ (cl.pc # "done" /\ calls'[c].pc = "done" /\ calls'[c].error \notin ValidationCodes \cup {""})
                 => cl.pc = "putFailed"
              /\ (cl.pc = "putFailed" /\ calls'[c] # cl)
                 => /\ calls'[c].pc = "done"
                    /\ calls'[c].result = NoResult
                    /\ calls'[c].error = (IF cl.error = "AWS_ERROR" THEN "TRANSACTION_ERROR" ELSE cl.error)
                    /\ IF faults' = faults
                       THEN /\ ik \in DOMAIN table'
                            /\ table'[ik].status = "failed"
                            /\ table'[ik].newBalance = Zero
                            /\ table'[ik].idempotentKey = cl.req.idempotentKey
                            /\ ChangedKeys \subseteq {ik}
                       ELSE table' = table]_vars

\* C19 witness: the put of the failed item failed for one call, which still
\* raised INSUFFICIENT_FUNDS, and succeeded for another call that lost a race
C19_Witness ==
    \E c, d \in Calls :
        /\ Done(c) /\ calls[c].error = "INSUFFICIENT_FUNDS"
        /\ createIdempotencyKey(calls[c].req.idempotentKey) \notin DOMAIN table
        /\ faults = 1
        /\ Done(d) /\ calls[d].error = "RACE_CONDITION"
        /\ createIdempotencyKey(calls[d].req.idempotentKey) \in DOMAIN table
        /\ table[createIdempotencyKey(calls[d].req.idempotentKey)].status = "failed"

\* C20: when a store read or the commit fails for a reason of the store, the
\* call raises the store-failure error and returns no result, no balance item
\* and no ledger item is changed, and the request stays retryable: the call
\* leaves no failed outcome under its token for a retry to be answered with.
C20_StoreFailureRetryable ==
    [][\A c \in Calls :
          LET cl == calls[c]
              ik == createIdempotencyKey(cl.req.idempotentKey)
          IN  /\ (cl.pc \in TrySteps /\ calls'[c] # cl /\ faults' # faults)
                 => /\ calls'[c].pc = "putFailed"
                    /\ calls'[c].error = "AWS_ERROR"
                    /\ table' = table
              /\ (cl.pc = "putFailed" /\ cl.error = "AWS_ERROR" /\ calls'[c] # cl)
                 => /\ calls'[c].pc = "done"
                    /\ calls'[c].error = "TRANSACTION_ERROR"
                    /\ calls'[c].result = NoResult
                    /\ ChangedKeys \subseteq {ik}
                    /\ ik \in DOMAIN table' => table'[ik].status # "failed"]_vars

\* the place of a step in the order of the code
Rank(pc) ==
    CASE pc = "idle" -> 0
      [] pc = "getIdempotency" -> 1
      [] pc = "getBalance" -> 2
      [] pc = "transactWrite" -> 3
      [] pc = "putFailed" -> 4
      [] pc = "done" -> 5

\* C21: transact never retries: every step of a call moves it forward in the
\* order idempotency read, balance read, commit attempt, failure-recording
\* write, so that each of them is performed at most once, and a call that
\* has settled holds either a result or an error and takes no further step.
C21_NoRetry ==
    [][\A c \in Calls :
          calls'[c] # calls[c]
          => /\ Rank(calls'[c].pc) > Rank(calls[c].pc)
             /\ calls'[c].pc = "done"
                => (calls'[c].error = "") # (calls'[c].result = NoResult)]_vars

\* C21 witness: a call read the idempotency item and the balance, attempted
\* the commit, lost the race, recorded the failure and raised RACE_CONDITION
C21_Witness ==
    \E c \in Calls :
        /\ Done(c) /\ calls[c].error = "RACE_CONDITION"
        /\ createIdempotencyKey(calls[c].req.idempotentKey) \in DOMAIN table
        /\ table[createIdempotencyKey(calls[c].req.idempotentKey)].status = "failed"
        /\ table[createIdempotencyKey(calls[c].req.idempotentKey)].userId = calls[c].req.userId

\* the keys of the ledger items
LedgerKeys ==
    {k \in DOMAIN table : StartsWith(k.PK, UserPrefix) /\ StartsWith(k.SK, TxnPrefix)}

\* C22: every successful commit creates exactly one ledger item, carrying the
\* token, the amount, the direction, the status completed and the resulting
\* balance of the commit; ledger items are created by commits only, and no
\* step changes or removes a ledger item that exists.
C22_LedgerAppendOnly ==
    [][/\ \A k \in LedgerKeys : k \in LedgerKeys' /\ table'[k] = table[k]
       /\ \A c \in Calls :
             (calls[c].pc = "transactWrite" /\ Committed(c)')
             => \E k \in LedgerKeys' \ LedgerKeys :
                   /\ LedgerKeys' \ LedgerKeys = {k}
                   /\ table'[k].idempotentKey = calls[c].req.idempotentKey
                   /\ table'[k].userId = calls[c].req.userId
                   /\ table'[k].amount = Amount(calls[c].req.amount).val
                   /\ table'[k].type = calls[c].req.type
                   /\ table'[k].status = "completed"
                   /\ table'[k].balanceAfter = calls[c].newBalance
       /\ LedgerKeys' # LedgerKeys
          => \E c \in Calls : calls[c].pc = "transactWrite" /\ Committed(c)']_vars

\* C26: the balance read takes the stored balance, 0 for an account without
\* a balance item; the new balance is that balance plus the amount for a
\* credit and minus the amount for a debit, and it is what a successful call
\* returns and stores. A debit of exactly the balance read passes the funds
\* check with new balance 0; a debit that reads an account without a balance
\* item is refused with INSUFFICIENT_FUNDS.
C26_NewBalanceArithmetic ==
    [][\A c \in Calls :
          LET cl == calls[c]
              amount == Amount(cl.req.amount).val
              stored == BalanceOf(cl.req.userId)
          IN  /\ (cl.pc = "getBalance" /\ calls'[c] # cl /\ faults' = faults)
                 => /\ calls'[c].currentBalance = stored
                    /\ ~HasBalance(cl.req.userId) => calls'[c].currentBalance = Zero
                    /\ calls'[c].pc = "transactWrite"
                       => calls'[c].newBalance =
                             IF cl.req.type = "credit" THEN JsAdd(stored, amount)
                                                       ELSE JsSub(stored, amount)
                    /\ (cl.req.type = "debit" /\ amount = stored)
                       => (calls'[c].pc = "transactWrite" /\ calls'[c].newBalance = Zero)
                    /\ (cl.req.type = "debit" /\ ~HasBalance(cl.req.userId))
                       => (calls'[c].pc = "putFailed"
                           /\ calls'[c].error = "INSUFFICIENT_FUNDS")
              /\ (cl.pc = "transactWrite" /\ Committed(c)')
                 => /\ calls'[c].result.success
                    /\ calls'[c].result.newBalance =
                          IF cl.req.type = "credit" THEN JsAdd(cl.currentBalance, amount)
                                                    ELSE JsSub(cl.currentBalance, amount)
                    /\ BalanceOf(cl.req.userId)' = calls'[c].result.newBalance
              /\ (cl.pc = "putFailed" /\ cl.error = "INSUFFICIENT_FUNDS" /\ calls'[c] # cl)
                 => (Done(c)' /\ calls'[c].error = "INSUFFICIENT_FUNDS")]_vars

\* C26 witness: a debit of the whole balance committed and left 0, a credit
\* on an account without a balance item returned its amount, and a debit
\* was refused with INSUFFICIENT_FUNDS
C26_Witness ==
    \E c, d, e \in Calls :
        /\ Committed(c) /\ calls[c].req.type = "debit"
        /\ calls[c].req.userId = SeededUser
        /\ Amount(calls[c].req.amount).val = FromInt(SeedBalance)
        /\ calls[c].result.newBalance = Zero
        /\ Committed(d) /\ calls[d].req.type = "credit"
        /\ calls[d].req.userId = UnseenUser
        /\ calls[d].result.newBalance = Amount(calls[d].req.amount).val
        /\ Done(e) /\ calls[e].req.type = "debit" /\ calls[e].error = "INSUFFICIENT_FUNDS"

\* the call is about to send a commit computed from an account it read as
\* absent (balance 0, version 0)
AttemptsFromAbsent(c) ==
    /\ calls[c].pc = "transactWrite"
    /\ calls[c].currentVersion = 0
    /\ calls[c].createdAt = <<>>

\* C28: of the calls that read an account as absent (version 0) and attempt
\* to commit, the one that finds the balance item still absent commits and
\* creates it at version 1 with its own amount as balance; one that finds the
\* item present is rejected by the condition, writes nothing and goes to the
\* catch block with the error of the rejection; so at most one commit
\* computed from version 0 is ever applied to an account.
C28_FirstWriterCreatesRecord ==
    [][/\ \A c \in Calls :
            LET cl == calls[c]
                u == cl.req.userId
            IN  (AttemptsFromAbsent(c) /\ calls'[c] # cl /\ faults' = faults)
                => IF HasBalance(u)
                   THEN /\ table' = table
                        /\ calls'[c].pc = "putFailed"
                        /\ calls'[c].error \in {"RACE_CONDITION", "AWS_ERROR"}
                   ELSE /\ Committed(c)'
                        /\ VersionOf(u)' = 1
                        /\ BalanceOf(u)' = SignedAmount(c)
                        /\ \A d \in Calls \ {c} :
                              (AttemptsFromAbsent(d) /\ calls[d].req.userId = u)
                              => (AttemptsFromAbsent(d)' /\ HasBalance(u)'
                                  /\ VersionOf(u)' # calls'[d].currentVersion)
       /\ \A u \in UserInputs :
             Cardinality({c \in Calls : /\ Committed(c)' /\ calls'[c].req.userId = u
                                        /\ calls'[c].currentVersion = 0}) <= 1]_vars

\* C28 witness: two calls with distinct tokens read the unseen account as
\* absent; one created the balance item at version 1, the other was rejected
C28_Witness ==
    \E c, d \in Calls :
        /\ calls[c].req.idempotentKey # calls[d].req.idempotentKey
        /\ calls[c].req.userId = UnseenUser /\ calls[d].req.userId = UnseenUser
        /\ Committed(c) /\ calls[c].currentVersion = 0
        /\ Done(d) /\ calls[d].error = "RACE_CONDITION"
        /\ VersionOf(UnseenUser) = 1
        /\ BalanceOf(UnseenUser) = SignedAmount(c)

\* the request names another account, amount or direction than the item
\* stored under its token
DiffersFromStored(req, item) ==
    \/ req.userId # item.userId
    \/ req.amount # item.amount
    \/ req.type # item.type

\* C29: when the idempotency lookup of a call finds an item under the token
\* and the request differs from it in account, amount or direction, the call
\* settles at once with the stored account, amount, direction and resulting
\* balance, and the step writes nothing: the balance items of the stored
\* account and of the account named by the request stay as they are.
C29_MismatchedReplayEchoesStored ==
    [][\A c \in Calls :
          LET cl == calls[c]
              key == createIdempotencyKey(cl.req.idempotentKey)
          IN  ( /\ cl.pc = "getIdempotency"
                /\ calls'[c] # cl
                /\ faults' = faults
                /\ key \in DOMAIN table
                /\ DiffersFromStored(cl.req, table[key]) )
              => /\ Done(c)' /\ calls'[c].error = ""
                 /\ calls'[c].result.userId = table[key].userId
                 /\ calls'[c].result.amount = table[key].amount
                 /\ calls'[c].result.type = table[key].type
                 /\ calls'[c].result.newBalance = table[key].newBalance
                 /\ calls'[c].result.success = (table[key].status = "completed")
                 /\ table' = table
                 /\ BalanceOf(cl.req.userId)' = BalanceOf(cl.req.userId)
                 /\ BalanceOf(table[key].userId)' = BalanceOf(table[key].userId)
                 /\ HasBalance(cl.req.userId)' = HasBalance(cl.req.userId)]_vars

\* C29 witness: a token committed on the seeded account was resubmitted as a
\* request on the unseen account with another amount and direction; the
\* answer echoes the stored request and the unseen account has no balance item
C29_Witness ==
    \E c \in Calls :
        /\ Done(c) /\ calls[c].error = ""
        /\ calls[c].result.message = "Transaction already processed (idempotent)"
        /\ calls[c].req.userId = UnseenUser
        /\ calls[c].result.userId = SeededUser
        /\ calls[c].result.amount # calls[c].req.amount
        /\ calls[c].result.type # calls[c].req.type
        /\ ~HasBalance(UnseenUser)

\* the balance item and the ledger items of an account
AccountKeys(tbl, userId) == {k \in DOMAIN tbl : k.PK = UserPrefix \o userId}

\* C30: calls on different accounts do not interfere. The commit of a call
\* on one account leaves the balance item and the ledger items of every
\* other account as they are, and a call fails with RACE_CONDITION only
\* when the balance item of its own account no longer has the version the
\* call read, which only a commit on that same account brings about.
C30_AccountsDoNotInterfere ==
    [][/\ \A c \in Calls, u \in UserInputs :
            ( /\ calls[c].pc = "transactWrite"
              /\ Committed(c)'
              /\ u # calls[c].req.userId )
            => /\ AccountKeys(table', u) = AccountKeys(table, u)
               /\ \A k \in AccountKeys(table, u) : table'[k] = table[k]
               /\ \A d \in Calls \ {c} :
                     ( /\ calls[d].pc = "transactWrite"
                       /\ calls[d].req.userId = u
                       /\ calls[d].currentVersion = VersionOf(u) )
                     => calls[d].currentVersion = VersionOf(u)'
       /\ \A d \in Calls :
            ( /\ calls[d].pc = "transactWrite"
              /\ calls'[d].error = "RACE_CONDITION" )
            => /\ VersionOf(calls[d].req.userId) # calls[d].currentVersion
               /\ \E e \in Calls \ {d} :
                     /\ Committed(e)
                     /\ calls[e].req.userId = calls[d].req.userId
                     /\ calls[e].currentVersion >= calls[d].currentVersion]_vars

\* C30 witness: while a call on the unseen account was between its balance
\* read and its commit, a later call with another token committed on the
\* seeded account; the version the first call read is still the stored one
C30_Witness ==
    \E c, d \in Calls :
        /\ d < c
        /\ calls[c].req.idempotentKey # calls[d].req.idempotentKey
        /\ Committed(c) /\ calls[c].req.userId = SeededUser
        /\ calls[d].pc = "transactWrite" /\ calls[d].req.userId = UnseenUser
        /\ calls[d].currentVersion = VersionOf(UnseenUser)
        /\ BalanceOf(UnseenUser) = calls[d].currentBalance

\* C24: when a request is repeated with the token of its completed item
\* after other commits have changed the balance of the account, the call
\* returns success = true, the 'idempotent' message and a newBalance equal to
\* the balance the account has now, and changes nothing.
C24_ReplayReturnsCurrentBalance ==
    [][\A c \in Calls :
          LET cl == calls[c]
              key == createIdempotencyKey(cl.req.idempotentKey)
          IN  ( /\ cl.pc = "getIdempotency"
                /\ calls'[c] # cl
                /\ faults' = faults
                /\ key \in DOMAIN table
                /\ table[key].status = "completed"
                /\ ~DiffersFromStored(cl.req, table[key])
                /\ BalanceOf(cl.req.userId) # table[key].newBalance )
              => /\ Done(c)' /\ calls'[c].error = ""
                 /\ calls'[c].result.success
                 /\ calls'[c].result.message = "Transaction already processed (idempotent)"
                 /\ calls'[c].result.newBalance = BalanceOf(cl.req.userId)
                 /\ table' = table]_vars

\* the call failed after a balance read that found no balance item: a funds
\* or race failure, or a failure of the store at the commit
FailedAfterReadingAbsent(cl) ==
    /\ cl.pc = "putFailed"
    /\ cl.createdAt = <<>>
    /\ cl.currentVersion = 0
    /\ \/ cl.error \in {"INSUFFICIENT_FUNDS", "RACE_CONDITION"}
       \/ cl.error = "AWS_ERROR" /\ ~IsZero(cl.newBalance)

\* the steps of a call that are not an applied commit
NotACommit(c) == ~(calls[c].pc = "transactWrite" /\ Committed(c)')

\* C27 as stated: when a call that read its account as absent settles with
\* INSUFFICIENT_FUNDS, RACE_CONDITION or a store failure, the account has no
\* balance item and getCurrentBalance answers 0 for it.
C27_FailedCallLeavesAccountUnseen ==
    [][\A c \in Calls :
          (FailedAfterReadingAbsent(calls[c]) /\ Done(c)')
          => /\ ~HasBalance(calls[c].req.userId)'
             /\ BalanceResponse(table', calls[c].req.userId) = Zero]_vars

\* C27 amended: neither the balance read of transact nor any step of a
\* failing call writes a balance item: balance items are created and changed
\* only by the applied commit of a call on that account. So after a failing
\* call on an account on which no call has committed, the account still has
\* no balance item and getCurrentBalance answers 0; a RACE_CONDITION on an
\* account read as absent means that another call has created the item.
C27_FailingCallWritesNoBalance ==
    [][/\ \A c \in Calls :
            (calls'[c] # calls[c] /\ NotACommit(c))
            => /\ BalanceKeys' = BalanceKeys
               /\ \A k \in BalanceKeys : table'[k] = table[k]
       /\ \A k \in BalanceKeys' :
            (k \notin BalanceKeys \/ table'[k] # table[k])
            => \E c \in Calls : /\ calls[c].pc = "transactWrite" /\ Committed(c)'
                                 /\ k = createUserBalanceKey(calls[c].req.userId)
       /\ \A c \in Calls :
            ( /\ FailedAfterReadingAbsent(calls[c]) /\ Done(c)'
              /\ CommittedOn(calls[c].req.userId) = {} )
            => /\ ~HasBalance(calls[c].req.userId)'
               /\ BalanceResponse(table', calls[c].req.userId) = Zero
       /\ \A c \in Calls :
            (FailedAfterReadingAbsent(calls[c]) /\ calls[c].error = "RACE_CONDITION")
            => (HasBalance(calls[c].req.userId) /\ CommittedOn(calls[c].req.userId) # {})
       /\ \A b \in Reads :
            ( /\ reads[b].pc = "get" /\ reads'[b].pc = "done" /\ faults' = faults
              /\ ~HasBalance(reads[b].arg.text) )
            => (reads'[b].error = "" /\ reads'[b].balance = Zero)]_vars

\* C27 witness: a debit on the unseen account was refused for lack of funds,
\* a credit on it failed at the store, the account has no balance item and
\* its balance was read as 0
C27_Witness ==
    \E c, d \in Calls, b \in Reads :
        /\ Done(c) /\ calls[c].req.userId = UnseenUser
        /\ calls[c].error = "INSUFFICIENT_FUNDS"
        /\ Done(d) /\ calls[d].req.userId = UnseenUser
        /\ calls[d].req.type = "credit" /\ calls[d].error = "TRANSACTION_ERROR"
        /\ ~HasBalance(UnseenUser)
        /\ reads[b].pc = "done" /\ reads[b].error = ""
        /\ reads[b].arg = StringArg(UnseenUser) /\ reads[b].balance = Zero

\* C23: the balance key of an account is (USER#<account>, BALANCE), the
\* ledger key is (USER#<account>, TXN#<timestamp>#<token>) and the
\* idempotency key of a token is (TXN#<token>, RESULT); a key of one kind is
\* never a key of another kind; different accounts have different balance
\* keys and different tokens have different idempotency keys; and every item
\* in the table is stored under the key of its kind built from its own fields.
C23_KeyShapes ==
    /\ \A u \in KeyUsers :
          createUserBalanceKey(u) =
             [PK |-> <<"U", "S", "E", "R", "#">> \o u,
              SK |-> <<"B", "A", "L", "A", "N", "C", "E">>]
    /\ \A u \in KeyUsers, ts \in KeyTimes, k \in KeyTokens :
          createTransactionKey(u, ts, k) =
             [PK |-> <<"U", "S", "E", "R", "#">> \o u,
              SK |-> <<"T", "X", "N", "#">> \o ts \o <<"#">> \o k]
    /\ \A k \in KeyTokens :
          createIdempotencyKey(k) =
             [PK |-> <<"T", "X", "N", "#">> \o k, SK |-> <<"R", "E", "S", "U", "L", "T">>]
    /\ \A v \in KeyUsers, ts \in KeyTimes, k \in KeyTokens :
          /\ \A u \in KeyUsers : createUserBalanceKey(u) # createTransactionKey(v, ts, k)
          /\ \A l \in KeyTokens : createTransactionKey(v, ts, k) # createIdempotencyKey(l)
    /\ \A u \in KeyUsers, k \in KeyTokens :
          createUserBalanceKey(u) # createIdempotencyKey(k)
    /\ \A u, v \in KeyUsers :
          u # v => createUserBalanceKey(u) # createUserBalanceKey(v)
    /\ \A k, l \in KeyTokens :
          k # l => createIdempotencyKey(k) # createIdempotencyKey(l)
    /\ \A key \in DOMAIN table :
          LET item == table[key]
          IN  /\ "version" \in DOMAIN item
                 => key = [PK |-> UserPrefix \o item.userId, SK |-> BalanceSK]
              /\ "balanceAfter" \in DOMAIN item
                 => key = [PK |-> UserPrefix \o item.userId,
                           SK |-> TxnPrefix \o item.timestamp \o <<"#">> \o item.idempotentKey]
              /\ "ttl" \in DOMAIN item
                 => key = [PK |-> TxnPrefix \o item.idempotentKey, SK |-> ResultSK]
    /\ \A c, d \in Calls :
          (Committed(c) /\ Committed(d) /\ calls[c].req.userId # calls[d].req.userId)
          => /\ HasBalance(calls[c].req.userId) /\ HasBalance(calls[d].req.userId)
             /\ table[createUserBalanceKey(calls[c].req.userId)].userId = calls[c].req.userId
             /\ table[createUserBalanceKey(calls[d].req.userId)].userId = calls[d].req.userId

\* C23 witness: commits on the account ' a' and on the account 'TXN#s',
\* under the tokens 'USER#a' and 's#', left the three kinds of items beside
\* the balance items of the four seeded accounts
C23_Witness ==
    /\ HasBalance(SeededUser)
    /\ HasBalance(<<" ", "a">>)
    /\ HasBalance(TxnPrefix \o <<"s">>)
    /\ createIdempotencyKey(UserPrefix \o <<"a">>) \in DOMAIN table
    /\ createIdempotencyKey(<<"s", "#">>) \in DOMAIN table
    /\ Cardinality(LedgerKeys) = 2
    /\ Cardinality(DOMAIN table) = Len(seedUsers) + 6

\* a field of the body is missing (undefined or empty) or is not of its type
\* (not a string, or a type that is neither credit nor debit)
MissingOrIllTyped(fields, body) ==
    \/ \E f \in fields : body[f].type # "string" \/ body[f].text = <<>>
    \/ "type" \in fields /\ TypeName(body.type.text) = "other"

\* the status and code the HTTP layer owes to an outcome of transact or
\* getCurrentBalance
OutcomeMapped(error, response) ==
    /\ error = "" => (response.status = 200 /\ response.success)
    /\ error \in {"INVALID_IDEMPOTENT_KEY", "INVALID_USER_ID", "INVALID_AMOUNT",
                  "INVALID_AMOUNT_FORMAT", "INVALID_TRANSACTION_TYPE"}
       => (response.status = 400 /\ response.code = error)
    /\ error = "INSUFFICIENT_FUNDS"
       => (response.status = 402 /\ response.code = "INSUFFICIENT_FUNDS")
    /\ error = "RACE_CONDITION" => response.status = 409
    /\ error \in {"TRANSACTION_ERROR", "DATABASE_ERROR"} => response.status = 500
    /\ error # "" => ~response.success
    /\ response.status \in {200, 400, 402, 409, 500}

\* C25: every response of POST /transact and POST /balance has the status
\* of its outcome: 400 for a body with a missing or ill-typed field and for
\* the validation error codes of transact and getCurrentBalance, 402 with
\* code INSUFFICIENT_FUNDS for insufficient funds, 409 for RACE_CONDITION,
\* 500 for a failure of the store and for an unknown error (a body that is
\* not a JSON object), 200 for a result that was returned.
C25_StatusOfOutcome ==
    /\ \A c \in Calls :
          LET r == responses.transact[c]
          IN  r.status # 0
              => IF r.body.json # "object"
                 THEN r.status = 500 /\ ~r.success
                 ELSE IF MissingOrIllTyped({"idempotentKey", "userId", "amount", "type"}, r.body)
                 THEN r.status = 400 /\ ~r.success
                 ELSE Done(c) /\ OutcomeMapped(calls[c].error, r)
    /\ \A b \in Reads :
          LET r == responses.balance[b]
          IN  r.status # 0
              => IF r.body.json # "object"
                 THEN r.status = 500 /\ ~r.success
                 ELSE IF MissingOrIllTyped({"userId"}, r.body)
                 THEN r.status = 400 /\ ~r.success
                 ELSE reads[b].pc = "done" /\ OutcomeMapped(reads[b].error, r)

\* C25 witness: of two debits answered, one got 402 INSUFFICIENT_FUNDS and
\* its repetition got 200 for the replayed failure, and a balance request
\* with a blank userId got 400 INVALID_USER_ID
C25_Witness ==
    \E c, d \in Calls, b \in Reads :
        /\ responses.transact[c].status = 402
        /\ responses.transact[c].code = "INSUFFICIENT_FUNDS"
        /\ responses.transact[d].status = 200
        /\ ~calls[d].result.success
        /\ responses.balance[b].status = 400
        /\ responses.balance[b].code = "INVALID_USER_ID"

\* C31: in every state, the token of every ledger item has an idempotency
\* item with status completed whose account and resulting balance are the
\* account and balanceAfter of the ledger item, and every idempotency item
\* with status completed has a ledger item of the same token and account.
C31_LedgerMatchesIdempotency ==
    /\ \A k \in LedgerKeys :
          LET ik == createIdempotencyKey(table[k].idempotentKey)
          IN  /\ ik \in DOMAIN table
              /\ table[ik].status = "completed"
              /\ table[ik].userId = table[k].userId
              /\ table[ik].newBalance = table[k].balanceAfter
    /\ \A ik \in IdempotencyKeys :
          table[ik].status = "completed"
          => \E k \in LedgerKeys :
                /\ table[k].idempotentKey = table[ik].idempotentKey
                /\ table[k].userId = table[ik].userId

\* the ledger items of an account
LedgerKeysOf(userId) == {k \in LedgerKeys : k.PK = UserPrefix \o userId}

\* C32: in every state, an account whose balance item was created by
\* transact has as version the number of its ledger items, and as balance
\* the balanceAfter of the ledger item of its most recent commit, the one
\* stamped with the updatedAt of the balance item.
C32_VersionCountsLedger ==
    \A u \in UserInputs \ {SeededUser} :
        HasBalance(u)
        => /\ VersionOf(u) = Cardinality(LedgerKeysOf(u))
           /\ \E k \in LedgerKeysOf(u) :
                 /\ table[k].timestamp = table[createUserBalanceKey(u)].updatedAt
                 /\ table[k].balanceAfter = BalanceOf(u)

\* C33: when no other call on the same account overlaps it, a valid call
\* whose token the lookup does not find never fails with RACE_CONDITION:
\* unless a request to the store fails, a credit passes the funds check and
\* commits, and a debit commits exactly when its amount does not exceed the
\* stored balance, and is refused with INSUFFICIENT_FUNDS otherwise.
C33_NoRaceWithoutOverlap ==
    [][\A c \in Calls :
          LET cl == calls[c]
              amount == Amount(cl.req.amount).val
          IN  /\ calls'[c].error # "RACE_CONDITION"
              /\ (cl.pc = "getBalance" /\ calls'[c] # cl /\ faults' = faults)
                 => IF cl.req.type = "credit" \/ JsLessEq(amount, BalanceOf(cl.req.userId))
                    THEN calls'[c].pc = "transactWrite"
                    ELSE calls'[c].pc = "putFailed" /\ calls'[c].error = "INSUFFICIENT_FUNDS"
              /\ (cl.pc = "transactWrite" /\ calls'[c] # cl /\ faults' = faults)
                 => /\ Committed(c)'
                    /\ BalanceOf(cl.req.userId)' = JsAdd(BalanceOf(cl.req.userId), SignedAmount(c))]_vars

\* C33 witness: while a call on the seeded account was in flight, a credit
\* on the unseen account committed and a later debit of more than its balance
\* was refused
C33_Witness ==
    \E c, d, e \in Calls :
        /\ c < d
        /\ Committed(c) /\ calls[c].req.userId = UnseenUser /\ calls[c].req.type = "credit"
        /\ Done(d) /\ calls[d].req.userId = UnseenUser /\ calls[d].req.type = "debit"
        /\ calls[d].error = "INSUFFICIENT_FUNDS"
        /\ calls[e].pc = "transactWrite" /\ calls[e].req.userId = SeededUser

\* the calls of ConcurrentRequest have settled, one with its commit applied
\* and every other one with RACE_CONDITION
OneCommittedOthersRaced ==
    /\ Cardinality({c \in ConcurrentCalls : Committed(c)}) = 1
    /\ \A c \in ConcurrentCalls :
          Done(c) /\ (Committed(c) \/ calls[c].error = "RACE_CONDITION")
    /\ \E c \in ConcurrentCalls :
          /\ Committed(c)
          /\ BalanceOf(SeededUser) = JsAdd(InitialBalance(SeededUser), SignedAmount(c))
          /\ VersionOf(SeededUser) = InitialVersion(SeededUser) + 1

\* C34: when several calls with distinct unseen tokens have read the same
\* version of an account, each valid on the balance read, and the store does
\* not fail, then once they have all settled exactly one commit is applied
\* and every other call has failed with RACE_CONDITION.
C34_ExactlyOneProgresses ==
    (\A c \in ConcurrentCalls : Done(c)) => OneCommittedOthersRaced

\* C35: for a request that POST /transact passed to transact, the response
\* has status 200 and outer success = true exactly when transact returned a
\* result, whatever the success flag of the result (a replayed failure
\* included), and outer success = false exactly when transact raised an error.
C35_OuterSuccessIffResult ==
    \A c \in Calls :
        LET r == responses.transact[c]
        IN  (r.status # 0 /\ Done(c))
            => /\ calls[c].error = "" <=> (r.status = 200 /\ r.success)
               /\ calls[c].error # "" <=> ~r.success
               /\ calls[c].error # "" => (r.status # 200 /\ r.code = calls[c].error)

\* C35 witness: the replay of a token whose stored outcome is failed was
\* answered with 200 and outer success = true, and the call that had raised
\* the error with outer success = false
C35_Witness ==
    \E c, d \in Calls :
        /\ responses.transact[c].status # 0 /\ ~responses.transact[c].success
        /\ Done(c) /\ calls[c].error # ""
        /\ responses.transact[d].status = 200 /\ responses.transact[d].success
        /\ Done(d) /\ calls[d].result.message = "Transaction previously failed"
        /\ ~calls[d].result.success
        /\ calls[d].req.idempotentKey = calls[c].req.idempotentKey

\* the fields of a request that are invalid, by position in the order
\* token, account id, amount, direction
InvalidFields(r) ==
    {i \in 1..4 :
        \/ i = 1 /\ Trim(r.idempotentKey) = <<>>
        \/ i = 2 /\ Trim(r.userId) = <<>>
        \/ i = 3 /\ ~PositiveFiniteAmount(r.amount)
        \/ i = 4 /\ r.type \notin {"credit", "debit"}}

\* the error of the field at a position
FieldError(i) ==
    CASE i = 1 -> "INVALID_IDEMPOTENT_KEY"
      [] i = 2 -> "INVALID_USER_ID"
      [] i = 3 -> "INVALID_AMOUNT"
      [] i = 4 -> "INVALID_TRANSACTION_TYPE"

\* C36: transact validates its fields in the order token, account id,
\* amount, direction: a call whose request has several invalid fields
\* settles with the error of the first invalid field in this order.
C36_FirstInvalidFieldReported ==
    \A c \in Calls :
        (calls[c].pc # "idle" /\ Cardinality(InvalidFields(calls[c].req)) >= 2)
        => /\ Done(c)
           /\ \E i \in InvalidFields(calls[c].req) :
                 /\ \A j \in InvalidFields(calls[c].req) : i <= j
                 /\ calls[c].error = FieldError(i)

====
